---- MODULE Spec2Model ----
(***************************************************************************)
(* Read-only SQL query service over CSV-backed tables: the request path    *)
(* POST /query/sql -> token check -> DatabaseEngine.execute -> SQLValidator *)
(* -> Scan / Filter / Project iterators -> NDJSON batch generator.          *)
(***************************************************************************)
EXTENDS Integers, Sequences, FiniteSets, TLC

\* ------------------------------------------------------------------ bounds
\* Longest CSV file (data rows, header excluded).
MaxRows == 3
\* Largest batch_size handed to TableIterator (the code's default is 1000).
MaxScanBatch == 2
\* Largest batch_size handed to batch_generator (the code's default is 1024).
MaxNdjsonBatch == 2

\* ------------------------------------------------------------------ cell values
\* A converted cell: t is the Python type, n its numeric value, s its text.
IntVal(i) == [t |-> "int", n |-> i, s |-> ""]
StrVal(x) == [t |-> "str", n |-> 0, s |-> x]
FloatVal(i) == [t |-> "float", n |-> i, s |-> ""]
BoolVal(b) == [t |-> "bool", n |-> IF b THEN 1 ELSE 0, s |-> ""]
\* A calendar date, kept as its ISO 8601 text.
DateVal(x) == [t |-> "date", n |-> 0, s |-> x]
NoneVal == [t |-> "none", n |-> 0, s |-> ""]
\* The outcome of a converter that raised ValueError.
ConvFail == [t |-> "fail", n |-> 0, s |-> ""]

\* Texts that int() accepts, with their values.
IntText == ("0" :> 0) @@ ("1" :> 1) @@ ("2" :> 2)
\* Texts that float() accepts, with their values.
FloatText == IntText @@ ("2.0" :> 2)
\* Texts that parse as a date.
DateTexts == {"2020-01-01", "2021-01-01"}
\* Lexicographic rank of the texts that occur as strings (for ISO dates the
\* order of the dates).
StrRank ==
    ("0" :> 0) @@ ("1" :> 1) @@ ("2" :> 2) @@ ("2.0" :> 3) @@ ("2020-01-01" :> 4)
    @@ ("2021-01-01" :> 5) @@ ("a" :> 6) @@ ("b" :> 7) @@ ("x" :> 8)

\* ------------------------------------------------------------------ type registry
STRING_FAMILY == {"VARCHAR", "TEXT", "CHAR"}
INTEGER_FAMILY == {"INTEGER", "INT", "BIGINT", "SMALLINT", "TINYINT"}
FLOAT_FAMILY == {"FLOAT", "DOUBLE", "DECIMAL", "DEC"}
TEMPORAL_FAMILY == {"DATE", "DATETIME", "TIMESTAMP"}
BOOLEAN_FAMILY == {"BOOLEAN", "BOOL"}
NULL_FAMILY == {"NULL"}

\* convert(text, declared-type) for a CSV cell.
\* The converter where a temporal type takes any text as it stands.
convert_datatype_unparsed(text, dtype) ==
    IF dtype \in STRING_FAMILY \cup TEMPORAL_FAMILY THEN StrVal(text)
    ELSE IF dtype \in INTEGER_FAMILY
        THEN IF text \in DOMAIN IntText THEN IntVal(IntText[text]) ELSE ConvFail
    ELSE IF dtype \in FLOAT_FAMILY
        THEN IF text \in DOMAIN FloatText THEN FloatVal(FloatText[text]) ELSE ConvFail
    ELSE IF dtype \in BOOLEAN_FAMILY
        THEN IF text \in {"TRUE", "FALSE"} THEN BoolVal(text = "TRUE") ELSE ConvFail
    ELSE IF dtype \in NULL_FAMILY
        THEN IF text \in {"null", "NULL"} THEN NoneVal ELSE ConvFail
    ELSE ConvFail
convert_datatype(text, dtype) ==
    IF dtype \in STRING_FAMILY THEN StrVal(text)
    ELSE IF dtype \in INTEGER_FAMILY
        THEN IF text \in DOMAIN IntText THEN IntVal(IntText[text]) ELSE ConvFail
    ELSE IF dtype \in FLOAT_FAMILY
        THEN IF text \in DOMAIN FloatText THEN FloatVal(FloatText[text]) ELSE ConvFail
    ELSE IF dtype \in BOOLEAN_FAMILY
        THEN IF text \in {"TRUE", "FALSE"} THEN BoolVal(text = "TRUE") ELSE ConvFail
    ELSE IF dtype \in TEMPORAL_FAMILY
        THEN IF text \in DateTexts THEN DateVal(text) ELSE ConvFail
    ELSE IF dtype \in NULL_FAMILY
        THEN IF text \in {"null", "NULL"} THEN NoneVal ELSE ConvFail
    ELSE ConvFail

\* converters-for(schema): one converter per declared type, in column order.
prepare_converters(column_types) ==
    [i \in 1..Len(column_types) |-> column_types[i]]

\* ------------------------------------------------------------------ catalog
\* The databases found under the data root, and the tables of db1: t1, the
\* table the requests stream from, and t2, a table with temporal columns and
\* a NULL-typed column.
Dbs == {"db1"}
TableName == "t1"
TableColumns == <<"a", "b">>
TableTypes == <<"INT", "VARCHAR">>
Table2Name == "t2"
Table2Columns == <<"d", "e", "f", "g", "h", "i", "j", "k">>
Table2Types == <<"DATE", "DATE", "FLOAT", "INT", "DATETIME", "TEXT", "CHAR", "NULL">>
\* Metadata(db).data: table -> ordered (column -> declared type).
SchemaColumns(table) == IF table = Table2Name THEN Table2Columns ELSE TableColumns
SchemaTypes(table) == IF table = Table2Name THEN Table2Types ELSE TableTypes
MetadataHasTable(table) == table \in {TableName, Table2Name}
MetadataHasColumn(table, name) ==
    \E i \in 1..Len(SchemaColumns(table)) : SchemaColumns(table)[i] = name
MetadataColumnType(table, name) ==
    SchemaTypes(table)[CHOOSE i \in 1..Len(SchemaColumns(table)) : SchemaColumns(table)[i] = name]

\* ------------------------------------------------------------------ sequences
Min(a, b) == IF a < b THEN a ELSE b

RECURSIVE SeqsUpTo(_, _)
\* All sequences over S of length 0..n.
SeqsUpTo(S, n) ==
    IF n = 0 THEN {<<>>}
    ELSE LET shorter == SeqsUpTo(S, n - 1)
         IN  shorter \cup {Append(q, e) : q \in {p \in shorter : Len(p) = n - 1}, e \in S}

\* list.index(x): the first position (1-based) holding x, 0 when absent.
IndexOf(seq, x) ==
    IF \E i \in 1..Len(seq) : seq[i] = x
    THEN CHOOSE i \in 1..Len(seq) : seq[i] = x /\ \A j \in 1..(i - 1) : seq[j] # x
    ELSE 0

\* str.lower() on the header and column names that occur.
Lower(x) ==
    CASE x = "A" -> "a"
      [] x = "B" -> "b"
      [] x = "C" -> "c"
      [] OTHER -> x

\* ------------------------------------------------------------------ CSV file
\* Raw rows: of the schema's arity, one cell short of it, one cell past it.
RawRows ==
    {<<"1", "1">>, <<"1", "x">>,        \* well-formed
     <<"x", "1">>,                      \* first cell is not an integer
     <<"1">>,                           \* one cell short
     <<"1", "x", "1">>,                 \* one cell too many, the first two convert
     <<"x", "x", "1">>}                 \* one cell too many, the first fails
\* Header rows: exact, differing in case only, wrong name, short, long.
Headers == {<<"a", "b">>, <<"A", "B">>, <<"a", "x">>, <<"a">>, <<"a", "b", "x">>}
\* No file on disk for the table.
NoFile == [exists |-> FALSE, header |-> <<>>, rows |-> <<>>]
CsvFiles ==
    {NoFile} \cup
    {[exists |-> TRUE, header |-> h, rows |-> rs] : h \in Headers, rs \in SeqsUpTo(RawRows, MaxRows)}

\* ------------------------------------------------------------------ Scan
\* [fn(cell) for fn, cell in zip(converters, raw_row)]: zip stops at the
\* shorter of the two.
ZipConvert(converters, raw_row) ==
    [i \in 1..Min(Len(converters), Len(raw_row)) |-> convert_datatype(raw_row[i], converters[i])]

\* The list comprehension raised ValueError.
ConversionRaises(converters, raw_row) ==
    \E i \in 1..Min(Len(converters), Len(raw_row)) :
        convert_datatype(raw_row[i], converters[i]) = ConvFail

\* One pass of the body of the while loop of _load_next_batch decides whether
\* the raw row is appended to the cache.
RowKept(converters, raw_row) ==
    /\ ~ConversionRaises(converters, raw_row)
    /\ Len(ZipConvert(converters, raw_row)) = Len(TableColumns)

RECURSIVE load_loop(_, _, _, _, _)
\* The while loop of _load_next_batch: pos raw rows are consumed so far, eof
\* tells that next(reader) raised StopIteration.
load_loop(rows, converters, batch_size, pos, cache) ==
    IF Len(cache) >= batch_size THEN [pos |-> pos, cache |-> cache, eof |-> FALSE]
    ELSE IF pos >= Len(rows) THEN [pos |-> pos, cache |-> cache, eof |-> TRUE]
    ELSE IF RowKept(converters, rows[pos + 1])
        THEN load_loop(rows, converters, batch_size, pos + 1,
                       Append(cache, ZipConvert(converters, rows[pos + 1])))
        ELSE load_loop(rows, converters, batch_size, pos + 1, cache)

\* What _load_next_batch leaves in the iterator when its loop ended as r:
\* self.__cache = batch, and self.__is_done = True after StopIteration.
\* The same with __is_done set after every refill.
batch_loaded_once(it, r) == [it EXCEPT !.pos = r.pos, !.cache = r.cache, !.is_done = TRUE]
batch_loaded(it, r) ==
    [it EXCEPT !.pos = r.pos, !.cache = r.cache,
               !.is_done = IF r.eof THEN TRUE ELSE it.is_done]

\* TableIterator._load_next_batch on iterator state it.
load_next_batch(rows, it) ==
    batch_loaded(it, load_loop(rows, it.converters, it.batch_size, it.pos, <<>>))

\* TableIterator.close: the guard hasattr(self, "_file") looks for an attribute
\* the instance never has (the handle is stored as _TableIterator__file).
HasFileAttr == FALSE
close(it) == IF HasFileAttr /\ it.file_open THEN [it EXCEPT !.file_open = FALSE] ELSE it

\* TableIterator.__init__ after a successful open and header check.
NewTableIterator(batch_size) ==
    [batch_size |-> batch_size, converters |-> prepare_converters(TableTypes),
     pos |-> 0, cache |-> <<>>, used |-> <<>>, is_done |-> FALSE,
     file_open |-> TRUE]
\* The iterator of a request that has not built one.
NoIterator ==
    [batch_size |-> 0, converters |-> <<>>, pos |-> 0, cache |-> <<>>, used |-> <<>>,
     is_done |-> FALSE, file_open |-> FALSE]

\* TableIterator.__init__ left by the exception of __check_header (line 23):
\* the file was opened on line 21 and nothing closes it on the way out.
HalfBuiltIterator == [NoIterator EXCEPT !.file_open = TRUE]

\* __check_header comparing the names without lower().
check_header_case_sensitive(header) ==
    \/ Len(header) # Len(TableColumns)
    \/ \E i \in 1..Len(TableColumns) : TableColumns[i] # header[i]

\* TableIterator.__check_header: TRUE when it raises.
check_header_raises(header) ==
    \/ Len(header) # Len(TableColumns)
    \/ \E i \in 1..Len(TableColumns) : Lower(TableColumns[i]) # Lower(header[i])

\* The second half of __next__ (lines 62-67): pop the head of the cache into
\* __used and return it, or close and raise StopIteration (has = FALSE).
pop_cache(it1) ==
    IF it1.cache # <<>>
    THEN [has |-> TRUE, raised |-> FALSE, row |-> Head(it1.cache),
          it |-> [it1 EXCEPT !.cache = Tail(it1.cache),
                             !.used = Append(it1.used, Head(it1.cache))]]
    ELSE [has |-> FALSE, raised |-> FALSE, row |-> <<>>, it |-> close(it1)]

\* TableIterator.__next__: refill the cache when it is empty and the reader is
\* not exhausted, then pop.
TableNext(rows, it) ==
    pop_cache(IF it.cache = <<>> /\ ~it.is_done THEN load_next_batch(rows, it) ELSE it)

\* ------------------------------------------------------------------ parsed SQL
\* The tree parse_one returns. Absent qualifiers are the empty string.
Column(name, table, db, catalog) ==
    [kind |-> "Column", name |-> name, table |-> table, db |-> db, catalog |-> catalog]
Col(name) == Column(name, "", "", "")
Star == [kind |-> "Star"]
Alias(e) == [kind |-> "Alias", this |-> e]
\* A number literal (is_string = FALSE) or a quoted string literal.
Number(text) == [kind |-> "Literal", name |-> text, is_string |-> FALSE]
String(text) == [kind |-> "Literal", name |-> text, is_string |-> TRUE]
Boolean(b) == [kind |-> "Boolean", value |-> b]
Paren(e) == [kind |-> "Paren", this |-> e]
Binary(kind, l, r) == [kind |-> kind, left |-> l, right |-> r]
NoWhere == [kind |-> "NoWhere"]
Table(name, db, alias, catalog) ==
    [name |-> name, db |-> db, alias |-> alias, catalog |-> catalog]
\* A SELECT: tables is list(tree.find_all(exp.Table)), clauses the further
\* args the tree carries ("limit", "order", "group", "joins").
SelectWith(expressions, tables, where, clauses) ==
    [stmt |-> "Select", expressions |-> expressions, tables |-> tables, where |-> where,
     clauses |-> clauses]
Select(expressions, tables, where) == SelectWith(expressions, tables, where, {})
\* NULL, and a node with one operand (NOT e) beside Paren and Alias.
Null == [kind |-> "Null"]
Not(e) == [kind |-> "Not", this |-> e]
Between(e, lo, hi) == [kind |-> "Between", this |-> e, low |-> lo, high |-> hi]

Comparisons == {"EQ", "NEQ", "LT", "LTE", "GT", "GTE"}
IsLiteral(e) == e.kind = "Literal"
IsColumn(e) == e.kind = "Column"
IsBoolean(e) == e.kind = "Boolean"
\* Literal.is_number, Literal.is_int, Literal.is_string
is_number(e) == e.kind = "Literal" /\ ~e.is_string
is_int(e) == is_number(e) /\ e.name \in DOMAIN IntText
is_string(e) == e.kind = "Literal" /\ e.is_string

RECURSIVE FindColumn(_)
\* expr.find(exp.Column): some node of the subtree is a Column.
FindColumn(e) ==
    \/ e.kind = "Column"
    \/ e.kind \in {"Paren", "Alias", "Not", "Between"} /\ FindColumn(e.this)
    \/ "left" \in DOMAIN e /\ (FindColumn(e.left) \/ FindColumn(e.right))

\* ------------------------------------------------------------------ Python values
QUOTE_TYPES == {"VARCHAR", "TEXT", "CHAR", "STRING", "DATE", "DATETIME", "TIMESTAMP"}
STRING_TYPES == {"VARCHAR", "TEXT", "CHAR", "STRING"}
NUMERIC_TYPES ==
    {"INTEGER", "INT", "BIGINT", "SMALLINT", "TINYINT", "FLOAT", "DOUBLE", "DECIMAL",
     "DEC", "BOOLEAN", "BOOL"}

NumericPy == {"int", "float", "bool"}
\* operator.eq/ne/lt/le/gt/ge on two integers.
\* The operator table with exp.GTE bound to operator.gt.
IntOpGteAsGt(op, m, n) ==
    CASE op = "EQ" -> m = n
      [] op = "NEQ" -> m # n
      [] op = "LT" -> m < n
      [] op = "LTE" -> m <= n
      [] op = "GT" -> m > n
      [] op = "GTE" -> m > n
IntOp(op, m, n) ==
    CASE op = "EQ" -> m = n
      [] op = "NEQ" -> m # n
      [] op = "LT" -> m < n
      [] op = "LTE" -> m <= n
      [] op = "GT" -> m > n
      [] op = "GTE" -> m >= n
\* OPERATORS[type(expr)](x, y) on two cell values: "T", "F", or "X" when
\* Python raises TypeError (ordering of unlike types).
PyCmp(op, x, y) ==
    IF x.t \in NumericPy /\ y.t \in NumericPy
        THEN IF IntOp(op, x.n, y.n) THEN "T" ELSE "F"
    ELSE IF (x.t = "str" /\ y.t = "str") \/ (x.t = "date" /\ y.t = "date")
        THEN IF IntOp(op, StrRank[x.s], StrRank[y.s]) THEN "T" ELSE "F"
    ELSE IF op = "EQ" THEN (IF x.t = "none" /\ y.t = "none" THEN "T" ELSE "F")
    ELSE IF op = "NEQ" THEN (IF x.t = "none" /\ y.t = "none" THEN "F" ELSE "T")
    ELSE "X"

\* ------------------------------------------------------------------ SQLValidator
\* Python's `l and r` / `l or r` on the values _eval_constant handles: "True",
\* "False", and "Expr", an object that is neither (truthy as any plain object).
PyAnd(l, r) == IF l = "False" THEN l ELSE r
PyOr(l, r) == IF l = "False" THEN r ELSE l

\* OPERATORS[type(expr)](expr.left, expr.right) on two string Literal NODES:
\* the nodes compare structurally under == and !=, and the ordering operators
\* of an expression node build a new comparison node instead of a bool.
NodeOp(op, l, r) ==
    CASE op = "EQ" -> IF l = r THEN "True" ELSE "False"
      [] op = "NEQ" -> IF l # r THEN "True" ELSE "False"
      [] OTHER -> "Expr"

RECURSIVE eval_constant(_)
\* SQLValidator._eval_constant: "True", "False", "None", "Expr", or "TypeError"
\* when it raises.
eval_constant(e) ==
    IF e.kind = "Paren" THEN eval_constant(e.this)
    ELSE IF FindColumn(e) THEN "None"
    ELSE IF e.kind = "Boolean" THEN (IF e.value THEN "True" ELSE "False")
    ELSE IF e.kind \in Comparisons THEN
        IF IsLiteral(e.left) /\ IsLiteral(e.right) THEN
            IF is_number(e.left) /\ is_number(e.right)
                THEN IF IntOp(e.kind, FloatText[e.left.name], FloatText[e.right.name])
                     THEN "True" ELSE "False"
            ELSE IF is_string(e.left) /\ is_string(e.right)
                THEN NodeOp(e.kind, e.left, e.right)
            ELSE "TypeError"
        ELSE "None"
    ELSE IF e.kind \in {"And", "Or"} THEN
        LET l == eval_constant(e.left)
            r == eval_constant(e.right)
        IN  IF l = "TypeError" \/ r = "TypeError" THEN "TypeError"
            ELSE IF l # "None" /\ r # "None"
                THEN IF e.kind = "And" THEN PyAnd(l, r) ELSE PyOr(l, r)
            ELSE "None"
    ELSE "None"

\* SQLValidator._get_column_type: the error it raises, "" when it returns.
get_column_type_error(column, table, db) ==
    IF column.catalog # "" THEN "SyntaxError"
    ELSE IF column.db # "" /\ column.db # db THEN "ValueError"
    ELSE IF column.table # "" /\ column.table # table THEN "ValueError"
    ELSE IF ~MetadataHasColumn(table, column.name) THEN "ValueError"
    ELSE ""
get_column_type(column, table) == MetadataColumnType(table, column.name)

\* A compiled predicate (the lambda the validator returns) as data.
ColRef(name) == [src |-> "col", name |-> name, val |-> NoneVal]
Const(v) == [src |-> "lit", name |-> "", val |-> v]
LambdaCmp(op, l, r) == [k |-> "cmp", op |-> op, lhs |-> l, rhs |-> r]
LambdaConst(b) == [k |-> "const", v |-> b]
LambdaAnd(l, r) == [k |-> "and", l |-> l, r |-> r]
LambdaOr(l, r) == [k |-> "or", l |-> l, r |-> r]
NoPredicate == [k |-> "None"]
Raise(err) == [err |-> err, fn |-> NoPredicate]
Return(fn) == [err |-> "", fn |-> fn]

\* Column against literal where the float branch forgets the QUOTE_TYPES test.
ColumnVsLiteralFloatUnchecked(op, column, literal, col_first, table, db) ==
    LET cmp(v) == IF col_first THEN LambdaCmp(op, ColRef(column.name), Const(v))
                  ELSE LambdaCmp(op, Const(v), ColRef(column.name))
        col_type == get_column_type(column, table)
    IN  IF get_column_type_error(column, table, db) # ""
            THEN Raise(get_column_type_error(column, table, db))
        ELSE IF is_int(literal) THEN
            IF col_type \notin QUOTE_TYPES THEN Return(cmp(IntVal(IntText[literal.name])))
            ELSE Raise("TypeError")
        ELSE IF is_number(literal) THEN Return(cmp(FloatVal(FloatText[literal.name])))
        ELSE IF col_type \in QUOTE_TYPES /\ convert_datatype(literal.name, col_type) # ConvFail
            THEN Return(cmp(convert_datatype(literal.name, col_type)))
        ELSE Raise("TypeError")

\* Lines 148-169 and 201-222: a column against a literal, the column on the
\* left (col_first) or on the right.
ColumnVsLiteral(op, column, literal, col_first, table, db) ==
    LET cmp(v) == IF col_first THEN LambdaCmp(op, ColRef(column.name), Const(v))
                  ELSE LambdaCmp(op, Const(v), ColRef(column.name))
        col_type == get_column_type(column, table)
    IN  IF get_column_type_error(column, table, db) # ""
            THEN Raise(get_column_type_error(column, table, db))
        ELSE IF is_int(literal) THEN
            IF col_type \notin QUOTE_TYPES THEN Return(cmp(IntVal(IntText[literal.name])))
            ELSE Raise("TypeError")
        ELSE IF is_number(literal) THEN
            IF col_type \notin QUOTE_TYPES THEN Return(cmp(FloatVal(FloatText[literal.name])))
            ELSE Raise("TypeError")
        ELSE IF col_type \in QUOTE_TYPES THEN
            IF convert_datatype(literal.name, col_type) # ConvFail
                THEN Return(cmp(convert_datatype(literal.name, col_type)))
            ELSE Raise("TypeError")
        ELSE Raise("TypeError")

\* Column against column that accepts columns of one declared type only.
ColumnVsColumnSameType(op, l, r, table, db) ==
    IF get_column_type_error(l, table, db) # "" THEN Raise(get_column_type_error(l, table, db))
    ELSE IF get_column_type_error(r, table, db) # "" THEN Raise(get_column_type_error(r, table, db))
    ELSE IF get_column_type(l, table) # get_column_type(r, table) THEN Raise("TypeError")
    ELSE Return(LambdaCmp(op, ColRef(l.name), ColRef(r.name)))

\* Lines 172-190: a column against a column.
ColumnVsColumn(op, l, r, table, db) ==
    LET t1 == get_column_type(l, table)
        t2 == get_column_type(r, table)
        fn == LambdaCmp(op, ColRef(l.name), ColRef(r.name))
    IN  IF get_column_type_error(l, table, db) # "" THEN Raise(get_column_type_error(l, table, db))
        ELSE IF get_column_type_error(r, table, db) # "" THEN Raise(get_column_type_error(r, table, db))
        ELSE IF t1 \in NUMERIC_TYPES /\ t2 \in NUMERIC_TYPES THEN Return(fn)
        ELSE IF t1 \in STRING_TYPES /\ t2 \in STRING_TYPES THEN Return(fn)
        ELSE IF t1 # t2 THEN Raise("TypeError")
        ELSE Return(fn)

\* Boolean against the other operand without the QUOTE_TYPES test on a column.
BooleanVsColumnUnchecked(op, b, other, bool_first, table, db) ==
    LET cmp(x) == IF bool_first THEN LambdaCmp(op, Const(BoolVal(b.value)), x)
                  ELSE LambdaCmp(op, x, Const(BoolVal(b.value)))
    IN  IF IsColumn(other) THEN
            IF get_column_type_error(other, table, db) # ""
                THEN Raise(get_column_type_error(other, table, db))
            ELSE Return(cmp(ColRef(other.name)))
        ELSE IF IsBoolean(other) THEN Return(cmp(Const(BoolVal(other.value))))
        ELSE IF IsLiteral(other) /\ is_number(other)
            THEN Return(cmp(Const(FloatVal(FloatText[other.name]))))
        ELSE Raise("TypeError")

\* Lines 224-248: a boolean literal on one side; other is the other operand.
BooleanVs(op, b, other, bool_first, table, db) ==
    LET cmp(x) == IF bool_first THEN LambdaCmp(op, Const(BoolVal(b.value)), x)
                  ELSE LambdaCmp(op, x, Const(BoolVal(b.value)))
    IN  IF IsColumn(other) THEN
            IF get_column_type_error(other, table, db) # ""
                THEN Raise(get_column_type_error(other, table, db))
            ELSE IF get_column_type(other, table) \in QUOTE_TYPES THEN Raise("TypeError")
            ELSE Return(cmp(ColRef(other.name)))
        ELSE IF IsBoolean(other) THEN Return(cmp(Const(BoolVal(other.value))))
        ELSE IF IsLiteral(other) THEN
            IF is_number(other) THEN Return(cmp(Const(FloatVal(FloatText[other.name]))))
            ELSE Raise("TypeError")
        ELSE Raise("SyntaxError")

RECURSIVE validate_predicate(_, _, _)
\* _validate_predicate without its last line: a node that is no boolean,
\* parenthesis, AND, OR or comparison of supported operands falls off the
\* end and returns None.
validate_predicate_lenient(e, table, db) ==
    IF e.kind = "Boolean" THEN Return(LambdaConst(e.value))
    ELSE IF e.kind = "Paren" THEN validate_predicate(e.this, table, db)
    ELSE IF e.kind \in {"And", "Or"} THEN
        LET l == validate_predicate(e.left, table, db)
            r == validate_predicate(e.right, table, db)
        IN  IF l.err # "" THEN l
            ELSE IF r.err # "" THEN r
            ELSE IF e.kind = "And" THEN Return(LambdaAnd(l.fn, r.fn))
            ELSE Return(LambdaOr(l.fn, r.fn))
    ELSE IF e.kind \in Comparisons THEN
        IF IsColumn(e.left) /\ IsLiteral(e.right)
            THEN ColumnVsLiteral(e.kind, e.left, e.right, TRUE, table, db)
        ELSE IF IsColumn(e.left) /\ IsColumn(e.right)
            THEN ColumnVsColumn(e.kind, e.left, e.right, table, db)
        ELSE IF IsLiteral(e.left) /\ IsLiteral(e.right) THEN
            IF is_number(e.left) /\ is_number(e.right)
                THEN Return(LambdaCmp(e.kind, Const(FloatVal(FloatText[e.left.name])),
                                      Const(FloatVal(FloatText[e.right.name]))))
            ELSE IF is_string(e.left) /\ is_string(e.right)
                THEN Return(LambdaCmp(e.kind, Const(StrVal(e.left.name)),
                                      Const(StrVal(e.right.name))))
            ELSE Raise("TypeError")
        ELSE IF IsLiteral(e.left) /\ IsColumn(e.right)
            THEN ColumnVsLiteral(e.kind, e.right, e.left, FALSE, table, db)
        ELSE IF IsBoolean(e.left) THEN BooleanVs(e.kind, e.left, e.right, TRUE, table, db)
        ELSE IF IsBoolean(e.right) THEN BooleanVs(e.kind, e.right, e.left, FALSE, table, db)
        ELSE Return(NoPredicate)
    ELSE Return(NoPredicate)

\* SQLValidator._validate_predicate: the lambda, or the error it raises.
validate_predicate(e, table, db) ==
    IF e.kind = "Boolean" THEN Return(LambdaConst(e.value))
    ELSE IF e.kind = "Paren" THEN validate_predicate(e.this, table, db)
    ELSE IF e.kind \in {"And", "Or"} THEN
        LET l == validate_predicate(e.left, table, db)
            r == validate_predicate(e.right, table, db)
        IN  IF l.err # "" THEN l
            ELSE IF r.err # "" THEN r
            ELSE IF e.kind = "And" THEN Return(LambdaAnd(l.fn, r.fn))
            ELSE Return(LambdaOr(l.fn, r.fn))
    ELSE IF e.kind \in Comparisons THEN
        IF IsColumn(e.left) /\ IsLiteral(e.right)
            THEN ColumnVsLiteral(e.kind, e.left, e.right, TRUE, table, db)
        ELSE IF IsColumn(e.left) /\ IsColumn(e.right)
            THEN ColumnVsColumn(e.kind, e.left, e.right, table, db)
        ELSE IF IsLiteral(e.left) /\ IsLiteral(e.right) THEN
            IF is_number(e.left) /\ is_number(e.right)
                THEN Return(LambdaCmp(e.kind, Const(FloatVal(FloatText[e.left.name])),
                                      Const(FloatVal(FloatText[e.right.name]))))
            ELSE IF is_string(e.left) /\ is_string(e.right)
                THEN Return(LambdaCmp(e.kind, Const(StrVal(e.left.name)),
                                      Const(StrVal(e.right.name))))
            ELSE Raise("TypeError")
        ELSE IF IsLiteral(e.left) /\ IsColumn(e.right)
            THEN ColumnVsLiteral(e.kind, e.right, e.left, FALSE, table, db)
        ELSE IF IsBoolean(e.left) THEN BooleanVs(e.kind, e.left, e.right, TRUE, table, db)
        ELSE IF IsBoolean(e.right) THEN BooleanVs(e.kind, e.right, e.left, FALSE, table, db)
        ELSE Raise("SyntaxError")
    ELSE Raise("SyntaxError")

\* The error one projection raises in _validate_projection, "" when accepted.
ProjectionError(p, table, db) ==
    IF p.kind = "Alias" THEN "SyntaxError"
    ELSE IF p.kind = "Column" THEN
        IF p.catalog # "" THEN "SyntaxError"
        ELSE IF p.db # "" /\ p.db # db THEN "ValueError"
        ELSE IF p.table # "" /\ p.table # table THEN "ValueError"
        ELSE IF ~MetadataHasColumn(table, p.name) /\ p.name # "*" THEN "ValueError"
        ELSE ""
    ELSE IF p.kind = "Star" THEN ""
    ELSE "SyntaxError"

\* SQLValidator._validate_projection: the first error in list order, or the
\* list of names ("*" for a star).
validate_projection(expressions, table, db) ==
    LET bad == {i \in 1..Len(expressions) : ProjectionError(expressions[i], table, db) # ""}
        first == CHOOSE i \in bad : \A j \in bad : i <= j
    IN  IF expressions = <<>> THEN [err |-> "SyntaxError", columns |-> <<>>]
        ELSE IF bad # {}
            THEN [err |-> ProjectionError(expressions[first], table, db), columns |-> <<>>]
        ELSE [err |-> "",
              columns |-> [i \in 1..Len(expressions) |->
                              IF expressions[i].kind = "Star" THEN "*" ELSE expressions[i].name]]

Rejected(err) ==
    [err |-> err, columns |-> <<>>, table |-> "", predicate |-> NoPredicate,
     always_true |-> FALSE, always_false |-> FALSE]

\* The WHERE part of SQLValidator.validate (lines 67-87).
validate_where(where, table, db) ==
    LET const == eval_constant(where)
    IN  IF where.kind = "NoWhere"
            THEN [err |-> "", predicate |-> NoPredicate, always_true |-> FALSE, always_false |-> FALSE]
        ELSE IF const = "TypeError"
            THEN [err |-> "TypeError", predicate |-> NoPredicate, always_true |-> FALSE, always_false |-> FALSE]
        ELSE IF const = "True"
            THEN [err |-> "", predicate |-> NoPredicate, always_true |-> TRUE, always_false |-> FALSE]
        ELSE IF const = "False"
            THEN [err |-> "", predicate |-> LambdaConst(FALSE), always_true |-> FALSE, always_false |-> TRUE]
        ELSE [err |-> validate_predicate(where, table, db).err,
              predicate |-> validate_predicate(where, table, db).fn,
              always_true |-> FALSE, always_false |-> FALSE]

\* SQLValidator.parse followed by SQLValidator.validate: the plan descriptor,
\* or the error raised.
validate(tree, db) ==
    IF tree.stmt = "ParseError" THEN Rejected("SyntaxError")
    ELSE IF tree.stmt # "Select" THEN Rejected("SyntaxError")
    ELSE IF db \notin Dbs THEN Rejected("ValueError")
    ELSE IF Len(tree.tables) # 1 THEN Rejected("SyntaxError")
    ELSE IF tree.tables[1].alias # "" THEN Rejected("SyntaxError")
    ELSE IF tree.tables[1].db # "" /\ tree.tables[1].db # db THEN Rejected("ValueError")
    ELSE IF ~MetadataHasTable(tree.tables[1].name) THEN Rejected("ValueError")
    ELSE
        LET table == tree.tables[1].name
            proj == validate_projection(tree.expressions, table, db)
            wh == validate_where(tree.where, table, db)
        IN  IF proj.err # "" THEN Rejected(proj.err)
            ELSE IF wh.err # "" THEN Rejected(wh.err)
            ELSE [err |-> "", columns |-> proj.columns, table |-> table,
                  predicate |-> wh.predicate, always_true |-> wh.always_true,
                  always_false |-> wh.always_false]

\* ------------------------------------------------------------------ predicate evaluation
RECURSIVE CallPredicate(_, _, _)
\* predicate(row, cols): "T", "F", or "X" when the call raises.
CallPredicate(fn, row, cols) ==
    IF fn.k = "const" THEN (IF fn.v THEN "T" ELSE "F")
    ELSE IF fn.k = "and" THEN
        LET l == CallPredicate(fn.l, row, cols)
        IN  IF l = "T" THEN CallPredicate(fn.r, row, cols) ELSE l
    ELSE IF fn.k = "or" THEN
        LET l == CallPredicate(fn.l, row, cols)
        IN  IF l = "F" THEN CallPredicate(fn.r, row, cols) ELSE l
    ELSE
        LET operand(o) == IF o.src = "col" THEN row[IndexOf(cols, o.name)] ELSE o.val
        IN  PyCmp(fn.op, operand(fn.lhs), operand(fn.rhs))

\* ------------------------------------------------------------------ plan and iterators
\* Project.__init__: the output columns and the 0-based column indices, -1
\* for a name the child does not have.
ProjectColumns(child_columns, columns) == IF columns = <<"*">> THEN child_columns ELSE columns
\* Project.__init__ with 1-based positions used as 0-based indices.
ProjectIndicesOneBased(child_columns, columns) ==
    [i \in 1..Len(ProjectColumns(child_columns, columns)) |->
        IndexOf(child_columns, ProjectColumns(child_columns, columns)[i])]
ProjectIndices(child_columns, columns) ==
    [i \in 1..Len(ProjectColumns(child_columns, columns)) |->
        IndexOf(child_columns, ProjectColumns(child_columns, columns)[i]) - 1]

\* ProjectIterator.__next__ on a child row.
ProjectRow(row, column_indices) ==
    [i \in 1..Len(column_indices) |->
        IF 0 <= column_indices[i] /\ column_indices[i] < Len(row)
        THEN row[column_indices[i] + 1] ELSE NoneVal]

\* FilterIterator.__next__ that hands out a matching row without consuming it
\* from the child (the row is seen again by the next pull).
FilterNextStuck(rows, it, predicate) ==
    LET r == TableNext(rows, it)
    IN  IF ~r.has THEN r
        ELSE IF CallPredicate(predicate, r.row, TableColumns) = "T" THEN [r EXCEPT !.it = it]
        ELSE [r EXCEPT !.has = FALSE]

RECURSIVE FilterNext(_, _, _)
RECURSIVE filter_child(_, _, _)
\* One turn of the while loop of FilterIterator.__next__ on the outcome r of
\* next(self.child): StopIteration passes through, a raising predicate call
\* ends the pull (raised = TRUE), a match is returned, else the loop goes on.
filter_child(rows, predicate, r) ==
    IF ~r.has THEN r
    ELSE IF CallPredicate(predicate, r.row, TableColumns) = "X"
        THEN [r EXCEPT !.raised = TRUE, !.has = FALSE]
    ELSE IF CallPredicate(predicate, r.row, TableColumns) = "T" THEN r
    ELSE FilterNext(rows, r.it, predicate)

\* FilterIterator.__next__: pulls from the scan until the predicate holds.
FilterNext(rows, it, predicate) == filter_child(rows, predicate, TableNext(rows, it))

\* ProjectIterator.__next__ on the outcome r of next(self.child).
project_next(r, p) ==
    IF r.has THEN [r EXCEPT !.row = ProjectRow(r.row, p.column_indices)] ELSE r

\* next() on the iterator execute returned: Project over (Filter over) Scan.
\* Filter.execute hands back the child iterator when the predicate is None.
\* The same pull handing out a row without consuming it from the scan.
PipelineNextPeek(rows, it, p) ==
    LET r == project_next(IF p.predicate = NoPredicate THEN TableNext(rows, it)
                          ELSE FilterNext(rows, it, p.predicate), p)
    IN  IF r.has THEN [r EXCEPT !.it = it] ELSE r
PipelineNext(rows, it, p) ==
    project_next(IF p.predicate = NoPredicate THEN TableNext(rows, it)
                 ELSE FilterNext(rows, it, p.predicate), p)

\* _serialize_value: dates become ISO 8601 text; the other cells pass.
serialize_value(v) == IF v.t = "date" THEN StrVal(v.s) ELSE v
SerializeRow(row) == [i \in 1..Len(row) |-> serialize_value(row[i])]

\* ------------------------------------------------------------------ requests
OneTable == <<Table(TableName, "", "", "")>>
BEqX == Binary("EQ", Col("b"), String("x"))
\* Queries over t1(a INT, b VARCHAR) that the validator accepts ...
AcceptedSql ==
    {Select(<<Star>>, OneTable, w) :
        w \in {NoWhere, Boolean(TRUE), Boolean(FALSE),
               Binary("EQ", Number("1"), Boolean(TRUE)),
               Binary("And", Binary("LT", String("b"), String("a")), Boolean(TRUE)),
               BEqX}}
    \cup {Select(p, OneTable, NoWhere) :
            p \in {<<Col("b"), Col("a"), Col("b")>>, <<Star, Col("a")>>}}
    \cup {Select(<<Col("b"), Col("a"), Col("b")>>, OneTable, BEqX)}
\* ... and queries it rejects: not SQL, not a SELECT, unknown table, unknown
\* column, alias, type mismatch, unsupported predicate.
RejectedSql ==
    {[stmt |-> "ParseError", expressions |-> <<>>, tables |-> <<>>, where |-> NoWhere,
      clauses |-> {}],
     [stmt |-> "Insert", expressions |-> <<>>, tables |-> OneTable, where |-> NoWhere,
      clauses |-> {}],
     Select(<<Star>>, <<Table("nosuch", "", "", "")>>, NoWhere),
     Select(<<Col("zz")>>, OneTable, NoWhere),
     Select(<<Alias(Col("a"))>>, OneTable, NoWhere),
     Select(<<Star>>, OneTable, Binary("EQ", Col("b"), Number("1"))),
     Select(<<Star>>, OneTable, Binary("Like", Col("b"), String("x")))}
Requests ==
    {[sql |-> q, db |-> "db1"] : q \in AcceptedSql \cup RejectedSql}
    \cup {[sql |-> Select(<<Star>>, OneTable, NoWhere), db |-> "nodb"]}
NoRequest ==
    [sql |-> [stmt |-> "None", expressions |-> <<>>, tables |-> <<>>, where |-> NoWhere,
              clauses |-> {}],
     db |-> ""]
\* Bearer tokens: good, past its exp, not signed with the key, none sent.
Tokens == {"valid", "expired", "forged", "missing"}
NoPlan == [predicate |-> NoPredicate, columns |-> <<>>, column_indices |-> <<>>]

\* ------------------------------------------------------------------ state
VARIABLES
    file,           \* the CSV file of table t1
    pc,             \* where the request is
    token,          \* the bearer token of the request
    req,            \* the body {sql, db} handed to the engine
    status,         \* HTTP status of the response, 0 before it starts
    detail,         \* the exception class behind an error response
    engine_calls,   \* how often DatabaseEngine.execute was entered
    plan,           \* the Filter predicate and the Project indices
    it,             \* the TableIterator
    ndjson_size,    \* batch_size of batch_generator
    batch,          \* rows batch_generator holds
    lines           \* NDJSON lines sent so far, each a list of rows

vars == <<file, pc, token, req, status, detail, engine_calls, plan, it, ndjson_size, batch, lines>>

Init ==
    /\ file \in CsvFiles
    /\ pc = "idle"
    /\ token = "none"
    /\ req = NoRequest
    /\ status = 0
    /\ detail = ""
    /\ engine_calls = 0
    /\ plan = NoPlan
    /\ it = NoIterator
    /\ ndjson_size = 0
    /\ batch = <<>>
    /\ lines = <<>>

\* get_current_user that decodes without verifying the exp claim.
get_current_user_no_exp(tok) ==
    IF tok = "missing" THEN 401
    ELSE IF tok = "forged" THEN 403
    ELSE 0

\* AuthManager.get_current_user as the dependency of POST /query/sql: the
\* status it answers with, 0 when it returns a user.
get_current_user(tok) ==
    IF tok = "missing" THEN 401
    ELSE IF tok \in {"expired", "forged"} THEN 403
    ELSE 0

\* The request arrives and its dependencies are resolved.
Authenticate ==
    /\ pc = "idle"
    /\ \E tok \in Tokens :
        /\ token' = tok
        /\ IF get_current_user(tok) # 0
            THEN /\ pc' = "rejected"
                 /\ status' = get_current_user(tok)
                 /\ detail' = "HTTPException"
            ELSE /\ pc' = "authed"
                 /\ UNCHANGED <<status, detail>>
    /\ UNCHANGED <<file, req, engine_calls, plan, it, ndjson_size, batch, lines>>

\* DatabaseEngine.execute: the exception class it raises, "" when it returns
\* the iterator.
execute(sql, db) ==
    IF db \notin Dbs THEN "SQLValidationError"
    ELSE IF validate(sql, db).err # "" THEN "SQLValidationError"
    ELSE IF ~file.exists THEN "DataAccessError"
    ELSE IF check_header_raises(file.header) THEN "DataAccessError"
    ELSE ""

\* execute got as far as building the TableIterator, whose header check then
\* raised.
\* The same for an engine that builds the scan before it validates.
HeaderCheckRaisedUnvalidated(sql, db) == file.exists /\ check_header_raises(file.header)
HeaderCheckRaised(sql, db) ==
    /\ db \in Dbs /\ validate(sql, db).err = ""
    /\ file.exists /\ check_header_raises(file.header)

\* QueryExecutor.execute_parsed_sql: Scan -> optional Filter -> Project.
execute_parsed_sql(parsed) ==
    [predicate |-> parsed.predicate,
     columns |-> ProjectColumns(SchemaColumns(parsed.table), parsed.columns),
     column_indices |-> ProjectIndices(SchemaColumns(parsed.table), parsed.columns)]

\* stream_query_by_sql with both except branches answering 400.
StatusOfAlways400(exc) == IF exc = "" THEN 200 ELSE 400

\* The HTTP status stream_query_by_sql maps an engine outcome to.
StatusOf(exc) ==
    IF exc = "SQLValidationError" THEN 400
    ELSE IF exc = "DataAccessError" THEN 500
    ELSE 200

\* stream_query_by_sql with a scan that fills its buffer when it is built.
HandleQueryEager ==
    /\ pc = "authed"
    /\ \E r \in Requests, scan_size \in 1..MaxScanBatch, out_size \in 1..MaxNdjsonBatch :
        LET exc == execute(r.sql, r.db)
        IN  /\ req' = r
            /\ engine_calls' = engine_calls + 1
            /\ status' = StatusOf(exc)
            /\ detail' = exc
            /\ IF exc # ""
                THEN /\ pc' = "rejected"
                     /\ it' = IF HeaderCheckRaised(r.sql, r.db) THEN HalfBuiltIterator ELSE it
                     /\ UNCHANGED <<plan, ndjson_size>>
                ELSE /\ pc' = "streaming"
                     /\ plan' = execute_parsed_sql(validate(r.sql, r.db))
                     /\ it' = load_next_batch(file.rows, NewTableIterator(scan_size))
                     /\ ndjson_size' = out_size
    /\ UNCHANGED <<file, token, batch, lines>>

\* stream_query_by_sql up to the return of the StreamingResponse.
HandleQuery ==
    /\ pc = "authed"
    /\ \E r \in Requests, scan_size \in 1..MaxScanBatch, out_size \in 1..MaxNdjsonBatch :
        LET exc == execute(r.sql, r.db)
        IN  /\ req' = r
            /\ engine_calls' = engine_calls + 1
            /\ status' = StatusOf(exc)
            /\ detail' = exc
            /\ IF exc # ""
                THEN /\ pc' = "rejected"
                     /\ it' = IF HeaderCheckRaised(r.sql, r.db) THEN HalfBuiltIterator ELSE it
                     /\ UNCHANGED <<plan, ndjson_size>>
                ELSE /\ pc' = "streaming"
                     /\ plan' = execute_parsed_sql(validate(r.sql, r.db))
                     /\ it' = NewTableIterator(scan_size)
                     /\ ndjson_size' = out_size
    /\ UNCHANGED <<file, token, batch, lines>>

\* batch_generator without the flush after the loop.
PullRowNoFlush ==
    /\ pc = "streaming"
    /\ \E r \in {PipelineNext(file.rows, it, plan)} :
       LET grown == Append(batch, SerializeRow(r.row))
       IN  /\ it' = r.it
           /\ IF r.raised
                THEN /\ pc' = "aborted"
                     /\ UNCHANGED <<batch, lines>>
              ELSE IF r.has
                THEN /\ pc' = "streaming"
                     /\ IF Len(grown) >= ndjson_size
                          THEN /\ lines' = Append(lines, grown)
                               /\ batch' = <<>>
                          ELSE /\ batch' = grown
                               /\ UNCHANGED lines
              ELSE /\ pc' = "done"
                   /\ UNCHANGED <<batch, lines>>
    /\ UNCHANGED <<file, token, req, status, detail, engine_calls, plan, ndjson_size>>

\* One turn of the for loop of batch_generator, up to the next pull.
PullRow ==
    /\ pc = "streaming"
    /\ \E r \in {PipelineNext(file.rows, it, plan)} :
       LET grown == Append(batch, SerializeRow(r.row))
       IN  /\ it' = r.it
           /\ IF r.raised
                THEN /\ pc' = "aborted"
                     /\ UNCHANGED <<batch, lines>>
              ELSE IF r.has
                THEN /\ pc' = "streaming"
                     /\ IF Len(grown) >= ndjson_size
                          THEN /\ lines' = Append(lines, grown)
                               /\ batch' = <<>>
                          ELSE /\ batch' = grown
                               /\ UNCHANGED lines
              ELSE /\ pc' = "done"
                   /\ lines' = IF batch # <<>> THEN Append(lines, batch) ELSE lines
                   /\ batch' = <<>>
    /\ UNCHANGED <<file, token, req, status, detail, engine_calls, plan, ndjson_size>>

\* A failing read after which the generator still flushes what it holds (as a
\* finally clause around the loop would).
ReadFailureFlushes ==
    /\ pc = "streaming"
    /\ \E r \in {PipelineNext(file.rows, it, plan)} :
          r.it.pos > it.pos \/ (r.it.is_done /\ ~it.is_done)
    /\ pc' = "aborted"
    /\ lines' = IF batch # <<>> THEN Append(lines, batch) ELSE lines
    /\ UNCHANGED <<file, token, req, status, detail, engine_calls, plan, it, ndjson_size,
                   batch>>

\* The pull reads the file and the read raises (csv.Error, a decoding error,
\* an OS error): the exception leaves batch_generator and ends the response.
ReadFailure ==
    /\ pc = "streaming"
    /\ \E r \in {PipelineNext(file.rows, it, plan)} :
          r.it.pos > it.pos \/ (r.it.is_done /\ ~it.is_done)
    /\ pc' = "aborted"
    /\ UNCHANGED <<file, token, req, status, detail, engine_calls, plan, it, ndjson_size,
                   batch, lines>>

\* The client goes away while batch_generator is suspended (not yet started,
\* or at the yield of line 54): the response stops iterating the generator,
\* which has no finally clause and closes nothing.
Disconnect ==
    /\ pc = "streaming"
    /\ batch = <<>>
    /\ pc' = "cancelled"
    /\ UNCHANGED <<file, token, req, status, detail, engine_calls, plan, it, ndjson_size,
                   batch, lines>>

Next == Authenticate \/ HandleQuery \/ PullRow \/ ReadFailure \/ Disconnect

Spec == Init /\ [][Next]_vars

\* ------------------------------------------------------------------ validation alone
\* Operands of comparisons over t1(a INT, b VARCHAR): plain and qualified
\* columns (right and wrong database, table, catalog), an unknown column,
\* integer, float and string literals, booleans, NULL ...
Operands1 ==
    {Col("a"), Col("b"), Column("a", "t1", "db1", ""), Column("a", "", "db2", ""),
     Column("a", "t9", "", ""), Column("a", "t1", "db1", "cat"), Col("zz"),
     Number("1"), Number("2.0"), String("x"), String("1"),
     Boolean(TRUE), Boolean(FALSE), Null}
\* ... and over t2(d DATE, e DATE, f FLOAT, g INT, h DATETIME, i TEXT, j CHAR,
\* k NULL).
Operands2 ==
    {Col("d"), Col("e"), Col("f"), Col("g"), Col("h"), Col("i"), Col("j"), Col("k"),
     String("2020-01-01"), String("x"), Number("1"), Boolean(TRUE)}
\* Operands of AND / OR and contents of parentheses.
Conjuncts ==
    {Boolean(TRUE), Boolean(FALSE), BEqX, Binary("LT", String("b"), String("a")),
     Binary("EQ", Number("1"), String("x")), Binary("Like", String("x"), String("x"))}
\* Predicates outside the supported grammar.
UnsupportedWheres ==
    {Binary("Like", Col("b"), String("x")), Binary("Is", Col("a"), Null),
     Between(Col("a"), Number("1"), Number("2")), Between(Number("1"), Number("1"), Number("2")),
     Binary("GT", Binary("Add", Col("a"), Number("1")), Number("1")),
     Binary("Add", Number("1"), Number("1")),
     Col("a"), Number("1"), String("x"), Null, Not(BEqX), Not(Boolean(TRUE)),
     Binary("Like", String("x"), String("x"))}
Wheres1 ==
    {Binary(op, l, r) : op \in Comparisons, l \in Operands1, r \in Operands1}
    \cup {Binary(k, l, r) : k \in {"And", "Or"}, l \in Conjuncts, r \in Conjuncts}
    \cup {Paren(e) : e \in Conjuncts}
    \cup UnsupportedWheres
Wheres2 == {Binary(op, l, r) : op \in Comparisons, l \in Operands2, r \in Operands2}
\* FROM clauses: one table with every mix of qualifiers, none, two.
FromClauses ==
    {<<Table(n, d, al, c)>> :
        n \in {TableName, "nosuch"}, d \in {"", "db1", "db2"}, al \in {"", "x"},
        c \in {"", "cat"}}
    \cup {<<>>, <<Table(TableName, "", "", ""), Table(Table2Name, "", "", "")>>}
\* Projection items: *, col, table.col, db.table.col, db.table.*, and items
\* that are wrongly qualified, unknown, aliased or not a column.
ProjectionItems ==
    {Star, Col("a"), Col("b"), Column("a", "t1", "", ""), Column("a", "t1", "db1", ""),
     Column("*", "t1", "db1", ""), Column("*", "t1", "db2", ""), Column("a", "t9", "", ""),
     Column("a", "t1", "db1", "cat"), Col("zz"), Alias(Col("a")), Number("1")}
MaxProjection == 2
ValidatorSql ==
    {Select(<<Star>>, OneTable, w) : w \in Wheres1}
    \cup {Select(<<Star>>, <<Table(Table2Name, "", "", "")>>, w) : w \in Wheres2}
    \cup {Select(<<Star>>, ts, NoWhere) : ts \in FromClauses}
    \cup {Select(p, OneTable, NoWhere) : p \in SeqsUpTo(ProjectionItems, MaxProjection)}
    \cup {SelectWith(<<Star>>, OneTable, w, {c}) :
            w \in {NoWhere, BEqX}, c \in {"limit", "order", "group"}}
    \cup {SelectWith(<<Star>>,
                      <<Table(TableName, "", "", ""), Table(Table2Name, "", "", "")>>,
                      NoWhere, {"joins"})}
    \cup {q \in RejectedSql : q.stmt # "Select"}
ValidatorRequests ==
    {[sql |-> q, db |-> "db1"] : q \in ValidatorSql}
    \cup {[sql |-> Select(<<Star>>, OneTable, NoWhere), db |-> "nodb"]}

\* The validator is handed a parsed statement.
InitValidate ==
    /\ req \in ValidatorRequests
    /\ pc = "parsed"
    /\ token = "valid"
    /\ file = NoFile
    /\ status = 0
    /\ detail = ""
    /\ engine_calls = 0
    /\ plan = NoPlan
    /\ it = NoIterator
    /\ ndjson_size = 0
    /\ batch = <<>>
    /\ lines = <<>>

\* The plan the descriptor d leads to, with the two flags of the descriptor.
Descriptor(d) ==
    execute_parsed_sql(d) @@ [always_true |-> d.always_true, always_false |-> d.always_false]

\* The first try block of DatabaseEngine.execute: validate the tree; detail
\* holds the class of the error the validator raised ("" when it returned),
\* which execute wraps into SQLValidationError and the route answers with.
ValidateQuery ==
    /\ pc = "parsed"
    /\ \E d \in {validate(req.sql, req.db)} :
        /\ detail' = d.err
        /\ status' = IF d.err # "" THEN StatusOf("SQLValidationError") ELSE status
        /\ plan' = IF d.err = "" THEN Descriptor(d) ELSE NoPlan
    /\ pc' = "validated"
    /\ engine_calls' = engine_calls + 1
    /\ UNCHANGED <<file, token, req, it, ndjson_size, batch, lines>>

SpecValidate == InitValidate /\ [][ValidateQuery]_vars

\* ------------------------------------------------------------------ reference notions
RECURSIVE Flatten(_)
\* The rows of a list of lines, in order.
Flatten(ls) == IF ls = <<>> THEN <<>> ELSE Head(ls) \o Flatten(Tail(ls))

RECURSIVE IsSubseq(_, _)
\* s can be obtained from t by deleting elements.
IsSubseq(s, t) ==
    IF s = <<>> THEN TRUE
    ELSE IF t = <<>> THEN FALSE
    ELSE IF Head(s) = Head(t) THEN IsSubseq(Tail(s), Tail(t))
    ELSE IsSubseq(s, Tail(t))

IsPrefix(s, t) == Len(s) <= Len(t) /\ SubSeq(t, 1, Len(s)) = s

RECURSIVE SeqMap(_, _)
SeqMap(Op(_), q) == IF q = <<>> THEN <<>> ELSE <<Op(Head(q))>> \o SeqMap(Op, Tail(q))

\* A raw row with one cell per schema column, each of which converts.
WellFormed(raw) ==
    /\ Len(raw) = Len(TableColumns)
    /\ \A i \in 1..Len(TableColumns) : convert_datatype(raw[i], TableTypes[i]) # ConvFail
\* The typed row of a well-formed raw row.
Typed(raw) == [i \in 1..Len(TableColumns) |-> convert_datatype(raw[i], TableTypes[i])]
\* The typed well-formed rows of a file, in file order.
WellFormedRows(rows) == SeqMap(Typed, SelectSeq(rows, WellFormed))

RECURSIVE RequestedCells(_, _)
\* A scan row projected to a requested column list: a star stands for every
\* column in schema order, a name for that column's cell.
RequestedCells(row, columns) ==
    IF columns = <<>> THEN <<>>
    ELSE (IF Head(columns) = "*" THEN row
          ELSE <<row[IndexOf(TableColumns, Head(columns))]>>)
         \o RequestedCells(row, Tail(columns))

\* The column list the request asks for.
RequestedColumns ==
    [i \in 1..Len(req.sql.expressions) |->
        IF req.sql.expressions[i].kind = "Star" THEN "*" ELSE req.sql.expressions[i].name]

\* The projection is a lone star or a list of plain column names.
PlainProjection == RequestedColumns = <<"*">> \/ \A i \in 1..Len(RequestedColumns) : RequestedColumns[i] # "*"
\* The names a plain projection stands for.
PlainNames == IF RequestedColumns = <<"*">> THEN TableColumns ELSE RequestedColumns

RECURSIVE Drain(_, _, _)
\* Every row the pipeline of plan p yields over rows until it stops.
Drain(rows, i, p) ==
    LET r == PipelineNext(rows, i, p)
    IN  IF r.has THEN <<SerializeRow(r.row)>> \o Drain(rows, r.it, p) ELSE <<>>

\* The rows sent so far and the rows held for the next line.
Sent == Flatten(lines)
Pulled == Flatten(lines) \o batch
\* The request passed the engine and a 200 response was started.
Started == pc \in {"streaming", "done", "aborted"}
\* What the same request yields with the WHERE clause left out.
NoWhereResult ==
    Drain(file.rows, NewTableIterator(it.batch_size), [plan EXCEPT !.predicate = NoPredicate])
\* What the request yields when nothing fails.
FullResult == Drain(file.rows, NewTableIterator(it.batch_size), plan)

\* ------------------------------------------------------------------ claims
\* C1: for an accepted query with no WHERE the rows streamed are exactly the
\* well-formed rows of the file (|S| cells, all converting), in file order,
\* each projected to the requested columns (stated for projections that are a
\* lone star or a list of names).
C1_NoWhereResultIsWellFormedRows ==
    (pc = "done" /\ req.sql.where = NoWhere /\ PlainProjection) =>
        Sent = SeqMap(LAMBDA row : SerializeRow(RequestedCells(row, RequestedColumns)),
                      WellFormedRows(file.rows))

\* C2: the rows a query with a WHERE clause yields are a subsequence of the
\* rows the same query yields without the clause.
C2_WhereYieldsSubsequence ==
    (Started /\ req.sql.where # NoWhere) => IsSubseq(Pulled, NoWhereResult)
\* A filtering query streamed rows and dropped at least one.
C2_Witness ==
    /\ pc = "done" /\ req.sql.where = BEqX
    /\ Sent # <<>> /\ Len(Sent) < Len(NoWhereResult)

\* C3: the scan yields a raw row iff it has |S| cells that all convert; short
\* rows, long rows and rows with a failing cell are skipped.
C3_ScanYieldsExactlyWellFormedRows ==
    Started => it.used \o it.cache = WellFormedRows(SubSeq(file.rows, 1, it.pos))

\* The truth value of a WHERE clause without columns: numbers compare
\* numerically, strings by their text, TRUE is 1 and FALSE is 0.
OperandValue(e) ==
    IF e.kind = "Boolean" THEN BoolVal(e.value)
    ELSE IF e.is_string THEN StrVal(e.name)
    ELSE FloatVal(FloatText[e.name])
RECURSIVE ConstantTruth(_)
ConstantTruth(e) ==
    IF e.kind = "Boolean" THEN e.value
    ELSE IF e.kind = "Paren" THEN ConstantTruth(e.this)
    ELSE IF e.kind = "And" THEN ConstantTruth(e.left) /\ ConstantTruth(e.right)
    ELSE IF e.kind = "Or" THEN ConstantTruth(e.left) \/ ConstantTruth(e.right)
    ELSE PyCmp(e.kind, OperandValue(e.left), OperandValue(e.right)) = "T"

\* C4: a WHERE clause without a column reference that is true gives the
\* result of the query without WHERE; one that is false gives no row.
C4_ConstantWhere ==
    (pc = "done" /\ req.sql.where # NoWhere /\ ~FindColumn(req.sql.where)) =>
        Sent = IF ConstantTruth(req.sql.where) THEN NoWhereResult ELSE <<>>

\* C5: each time a row is produced it has one cell per requested name (per
\* schema column for SELECT *), in that order, each the cell of the scan row
\* at the name's schema position.
C5_ProjectionShape ==
    [][(Started' /\ PlainProjection' /\ Len(Pulled') = Len(Pulled) + 1) =>
        LET out == IF batch' # <<>> THEN batch'[Len(batch')]
                   ELSE lines'[Len(lines')][Len(lines'[Len(lines')])]
            scanned == it'.used[Len(it'.used)]
        IN  /\ Len(out) = Len(PlainNames')
            /\ \A i \in 1..Len(out) :
                 out[i] = serialize_value(scanned[IndexOf(TableColumns, PlainNames'[i])])]_vars
\* A reordering projection with a repeated name produced a row.
C5_Witness ==
    /\ Started /\ RequestedColumns = <<"b", "a", "b">>
    /\ Pulled # <<>> /\ Pulled[1][1] # Pulled[1][2] /\ Pulled[1][1] = Pulled[1][3]

\* The header has the schema's arity and, position by position, the schema's
\* names up to letter case.
HeaderMatches(header) ==
    /\ Len(header) = Len(TableColumns)
    /\ \A i \in 1..Len(TableColumns) : Lower(header[i]) = Lower(TableColumns[i])
\* The engine was called with a request the validator has to turn down.
InvalidRequest == engine_calls > 0 /\ (req.db \notin Dbs \/ req.sql \in RejectedSql)
\* The engine was called with a valid request whose table cannot be scanned.
UnreadableTable ==
    /\ engine_calls > 0 /\ req.db \in Dbs /\ req.sql \in AcceptedSql
    /\ (~file.exists \/ ~HeaderMatches(file.header))

\* C6: a request the engine turns down with a validation error (unknown
\* database included) is answered 400 with a detail, one that fails with a
\* data access error before streaming is answered 500; neither starts a 200
\* response nor emits a row.
C6_EngineErrorsMapTo400And500 ==
    /\ InvalidRequest => (status = 400 /\ detail = "SQLValidationError")
    /\ UnreadableTable => (status = 500 /\ detail = "DataAccessError")
    /\ (InvalidRequest \/ UnreadableTable) => (pc = "rejected" /\ lines = <<>> /\ batch = <<>>)
    /\ (engine_calls > 0 /\ status \in {400, 500}) => (InvalidRequest \/ UnreadableTable)
\* Both answers occur: 400 for an unknown database, 500 for a missing file.
C6_Witness400 == status = 400 /\ req.db \notin Dbs
C6_Witness == status = 500 /\ ~file.exists /\ req.sql \in AcceptedSql

\* C7: for a valid request over an existing file, building the Scan fails iff
\* the header's arity or one of its names (letter case aside) differs from
\* the schema's; the failure is a DataAccessError answered 500 before any row
\* is read or streamed.
C7_HeaderMismatchFailsScan ==
    (engine_calls > 0 /\ req.db \in Dbs /\ req.sql \in AcceptedSql /\ file.exists) =>
        /\ (status = 500) <=> ~HeaderMatches(file.header)
        /\ ~HeaderMatches(file.header) =>
             (detail = "DataAccessError" /\ pc = "rejected" /\ it.pos = 0 /\ Pulled = <<>>)
\* A header that differs in letter case only was accepted and rows streamed.
C7_Witness ==
    /\ file.header = <<"A", "B">> /\ pc = "done" /\ Sent # <<>>

RECURSIVE Chunks(_, _)
\* rows cut into consecutive lines of n rows, the last one possibly shorter.
Chunks(rows, n) ==
    IF rows = <<>> THEN <<>>
    ELSE IF Len(rows) <= n THEN <<rows>>
    ELSE <<SubSeq(rows, 1, n)>> \o Chunks(SubSeq(rows, n + 1, Len(rows)), n)

\* C8: the lines partition the result in order; every line holds 1..batch_size
\* rows, every line but the last exactly batch_size, the last partial batch is
\* flushed at the end, and an empty result is a 200 response without a line.
C8_LinesPartitionResult ==
    /\ Started =>
        /\ \A i \in 1..Len(lines) : Len(lines[i]) >= 1 /\ Len(lines[i]) <= ndjson_size
        /\ \A i \in 1..(Len(lines) - 1) : Len(lines[i]) = ndjson_size
        /\ Len(batch) < ndjson_size
        /\ IsPrefix(Pulled, FullResult)
    /\ pc = "streaming" => \A i \in 1..Len(lines) : Len(lines[i]) = ndjson_size
    /\ pc = "done" =>
        /\ status = 200
        /\ Sent = FullResult
        /\ FullResult = <<>> => lines = <<>>
\* A full line followed by a flushed partial line.
C8_Witness ==
    /\ pc = "done" /\ ndjson_size = 2 /\ Len(lines) = 2
    /\ Len(lines[1]) = 2 /\ Len(lines[2]) = 1
\* An empty table answered 200 without a line.
C8_WitnessEmpty == pc = "done" /\ file.rows = <<>> /\ status = 200 /\ lines = <<>>

\* C9: when the pipeline fails after the response started, the failing step
\* emits nothing, the rows held in the batch are not flushed, nothing is
\* emitted afterwards, and the lines sent are a prefix of the lines of the
\* failure-free run.
C9_FailureEndsStream ==
    /\ [][(pc' = "aborted") => lines' = lines]_vars
    /\ [](pc = "aborted" =>
            (status = 200 /\ IsPrefix(lines, Chunks(FullResult, ndjson_size))))
\* A failure with a line already sent and rows still held in the batch.
C9_Witness == pc = "aborted" /\ lines # <<>> /\ batch # <<>>

\* C10 as stated: an invalid or expired token is answered 401 and the engine
\* is not invoked.
C10_InvalidTokenIs401 ==
    (token \in {"expired", "forged"} /\ pc # "idle") =>
        (status = 401 /\ engine_calls = 0)
\* C10 amended: an invalid or expired token is answered 403 and the engine is
\* never invoked for it; the engine is invoked only for a verified token.
C10_InvalidTokenIs403 ==
    /\ (token \in {"expired", "forged"}) =>
         (pc = "rejected" /\ status = 403 /\ engine_calls = 0)
    /\ engine_calls > 0 => token = "valid"
\* An expired token was turned down.
C10_Witness == token = "expired" /\ pc = "rejected" /\ status = 403

\* ------------------------------------------------------------------ claims on validation
RECURSIVE ColumnsOf(_)
\* The column nodes of a subtree.
ColumnsOf(e) ==
    IF e.kind = "Column" THEN {e}
    ELSE IF "this" \in DOMAIN e THEN ColumnsOf(e.this)
    ELSE IF "left" \in DOMAIN e THEN ColumnsOf(e.left) \cup ColumnsOf(e.right)
    ELSE {}
\* The column nodes of the projection list and of the WHERE clause.
RequestColumns ==
    UNION {ColumnsOf(req.sql.expressions[i]) : i \in 1..Len(req.sql.expressions)}
    \cup ColumnsOf(req.sql.where)
\* The validator returned a plan descriptor / raised.
Accepted == pc = "validated" /\ detail = ""
Refused == pc = "validated" /\ detail # "" /\ status = 400 /\ plan = NoPlan

\* C11: an accepted query is a SELECT over exactly one table, without table
\* alias, without catalog qualifier on the table or on a column, and with
\* every database qualifier equal to the requested database.
C11_AcceptedQueryShape ==
    Accepted =>
        /\ req.sql.stmt = "Select"
        /\ Len(req.sql.tables) = 1
        /\ req.sql.tables[1].alias = ""
        /\ req.sql.tables[1].catalog = ""
        /\ req.sql.tables[1].db \in {"", req.db}
        /\ \A c \in RequestColumns : c.catalog = "" /\ c.db \in {"", req.db}

\* The WHERE clause is one comparison; its table; its operands.
WhereIsComparison ==
    pc = "validated" /\ Len(req.sql.tables) = 1 /\ req.sql.where.kind \in Comparisons
ReqTable == req.sql.tables[1].name
\* e is a column of the request's table, rightly qualified.
Resolves(e) ==
    /\ e.kind = "Column" /\ e.catalog = "" /\ e.db \in {"", req.db}
    /\ e.table \in {"", ReqTable} /\ MetadataHasColumn(ReqTable, e.name)
\* The comparability classes of the declared types.
NumericClass == INTEGER_FAMILY \cup FLOAT_FAMILY \cup BOOLEAN_FAMILY
StringlikeClass == STRING_FAMILY
QuotedClass == STRING_FAMILY \cup TEMPORAL_FAMILY
ClassOf(e) ==
    IF MetadataColumnType(ReqTable, e.name) \in NumericClass THEN "NUMERIC"
    ELSE IF MetadataColumnType(ReqTable, e.name) \in StringlikeClass THEN "STRINGLIKE"
    ELSE "OTHER"
IsQuotedColumn(e) == Resolves(e) /\ MetadataColumnType(ReqTable, e.name) \in QuotedClass
IsNumericColumn(e) == Resolves(e) /\ MetadataColumnType(ReqTable, e.name) \in NumericClass
IsNumberLiteral(e) == e.kind = "Literal" /\ ~e.is_string
IsStringLiteral(e) == e.kind = "Literal" /\ e.is_string
\* The validator raised TypeError, answered 400, and no plan exists.
TypeMismatch == Refused /\ detail = "TypeError"

\* C12: a quoted-class column against an integer or float literal is turned
\* down with a type mismatch (400), whichever side the column is on and
\* whatever the operator.
C12_QuotedColumnVsNumber ==
    (/\ WhereIsComparison
     /\ \/ IsQuotedColumn(req.sql.where.left) /\ IsNumberLiteral(req.sql.where.right)
        \/ IsNumberLiteral(req.sql.where.left) /\ IsQuotedColumn(req.sql.where.right))
    => TypeMismatch
\* A float literal on the left of a VARCHAR column was turned down.
C12_Witness ==
    /\ pc = "validated" /\ req.sql.where = Binary("GTE", Number("2.0"), Col("b"))
    /\ TypeMismatch

\* The WHERE clause compares two columns of the request's table.
ColumnVsColumnCase ==
    WhereIsComparison /\ Resolves(req.sql.where.left) /\ Resolves(req.sql.where.right)
\* The two columns are both NUMERIC or both STRINGLIKE.
SameClass ==
    /\ ClassOf(req.sql.where.left) = ClassOf(req.sql.where.right)
    /\ ClassOf(req.sql.where.left) # "OTHER"
\* The two columns have the same declared type.
SameDeclaredType ==
    MetadataColumnType(ReqTable, req.sql.where.left.name)
        = MetadataColumnType(ReqTable, req.sql.where.right.name)

\* C13 as stated: column against column is accepted iff both are NUMERIC or
\* both are STRINGLIKE, and turned down with a type mismatch otherwise.
C13_ColumnPairsByClassOnly ==
    ColumnVsColumnCase => IF SameClass THEN Accepted ELSE TypeMismatch
\* C13 amended: column against column is accepted iff both are NUMERIC, both
\* are STRINGLIKE, or both have the same declared type, and turned down with
\* a type mismatch otherwise.
C13_ColumnPairsByClassOrType ==
    ColumnVsColumnCase => IF SameClass \/ SameDeclaredType THEN Accepted ELSE TypeMismatch
\* An integer column against a float column was accepted.
C13_Witness ==
    /\ Accepted /\ req.sql.where = Binary("LT", Col("g"), Col("f"))
    /\ plan.predicate = LambdaCmp("LT", ColRef("g"), ColRef("f"))

\* The WHERE clause compares two literals.
LiteralVsLiteralCase ==
    /\ WhereIsComparison
    /\ req.sql.where.left.kind = "Literal" /\ req.sql.where.right.kind = "Literal"
\* The WHERE clause was folded to the truth value b: the descriptor says
\* always_true (and has no predicate) or always_false.
FoldedTo(b) ==
    /\ Accepted
    /\ plan.always_true = b /\ plan.always_false = ~b
    /\ b => plan.predicate = NoPredicate

\* C14: a comparison of two literals is decided when the query is validated,
\* for all six operators: numbers compare as floats, strings by their text,
\* and a number against a string is turned down with a type mismatch.
C14_LiteralComparisonFolded ==
    LiteralVsLiteralCase =>
        IF req.sql.where.left.is_string = req.sql.where.right.is_string
        THEN FoldedTo(ConstantTruth(req.sql.where))
        ELSE TypeMismatch

\* Typed rows of the request's table to evaluate a predicate on: every
\* numeric cell is n, every string cell "x", every temporal cell a date.
SampleCell(type, n) ==
    IF type \in FLOAT_FAMILY THEN FloatVal(n)
    ELSE IF type \in NumericClass THEN IntVal(n)
    ELSE IF type \in TEMPORAL_FAMILY THEN DateVal("2020-01-01")
    ELSE IF type \in NULL_FAMILY THEN NoneVal
    ELSE StrVal("x")
SampleRows ==
    {[i \in 1..Len(SchemaTypes(ReqTable)) |-> SampleCell(SchemaTypes(ReqTable)[i], n)] :
        n \in 0..2}
\* The number an operand stands for on a row: TRUE is 1, FALSE is 0.
NumericValue(e, row) ==
    IF e.kind = "Boolean" THEN (IF e.value THEN 1 ELSE 0)
    ELSE IF e.kind = "Literal" THEN FloatText[e.name]
    ELSE row[IndexOf(SchemaColumns(ReqTable), e.name)].n
\* The compiled predicate gives the numeric verdict of the comparison on
\* every sample row.
EvaluatedNumerically ==
    /\ Accepted
    /\ \A row \in SampleRows :
         CallPredicate(plan.predicate, row, SchemaColumns(ReqTable))
            = IF IntOp(req.sql.where.kind, NumericValue(req.sql.where.left, row),
                       NumericValue(req.sql.where.right, row))
              THEN "T" ELSE "F"
\* A boolean literal is compared with other, on either side.
BooleanAgainst(other) ==
    /\ WhereIsComparison
    /\ \/ req.sql.where.left.kind = "Boolean" /\ req.sql.where.right = other
       \/ req.sql.where.right.kind = "Boolean" /\ req.sql.where.left = other

SupportedOperand(e) == e.kind \in {"Column", "Literal", "Boolean"}
RECURSIVE Supported(_)
\* The predicate grammar: comparisons of such operands, AND, OR,
\* parentheses, a boolean literal.
Supported(e) ==
    IF e.kind = "Boolean" THEN TRUE
    ELSE IF e.kind = "Paren" THEN Supported(e.this)
    ELSE IF e.kind \in {"And", "Or"} THEN Supported(e.left) /\ Supported(e.right)
    ELSE IF e.kind \in Comparisons THEN SupportedOperand(e.left) /\ SupportedOperand(e.right)
    ELSE FALSE

\* C16: a WHERE clause with a node outside the supported grammar (LIKE,
\* BETWEEN, IS NULL, arithmetic, NOT, a bare column or literal) is turned
\* down with a validation error (400) and yields no plan.
C16_UnsupportedPredicateRejected ==
    (pc = "validated" /\ req.sql.where # NoWhere /\ ~Supported(req.sql.where)) => Refused
\* LIKE beside a constant TRUE under OR was turned down as unsupported.
C16_Witness ==
    /\ req.sql.where = Binary("Or", Boolean(TRUE), Binary("Like", String("x"), String("x")))
    /\ Refused /\ detail = "SyntaxError"

\* C17: a SELECT that carries LIMIT, ORDER BY, GROUP BY or a join is turned
\* down with a validation error (400), never accepted with the clause
\* ignored.
C17_UnsupportedClauseRejected ==
    (pc = "validated" /\ req.sql.clauses # {}) => Refused

\* C18: for an accepted query every column index of the plan lies in
\* 0..|S|-1 and Project hands out no null cell, also when the projection
\* list combines * with named columns.
C18_AcceptedIndicesInSchema ==
    Accepted =>
        /\ \A i \in DOMAIN plan.column_indices :
                plan.column_indices[i] \in 0..(Len(SchemaColumns(ReqTable)) - 1)
        /\ \A row \in SampleRows : \A i \in DOMAIN plan.column_indices :
                ProjectRow(row, plan.column_indices)[i] # NoneVal

\* ------------------------------------------------------------------ claims on the file handle
\* The scan has raised StopIteration and the generator has returned.
ScanExhausted == pc = "done"
\* A further next() ends at once and reads nothing.
NextAfterEndReadsNothing ==
    /\ ~TableNext(file.rows, it).has
    /\ TableNext(file.rows, it).it.pos = it.pos
\* C19: once the scan has reached the end of the file its handle is
\* closed, a later next() gives end-of-sequence without reading the file,
\* and closing a second time changes nothing.
C19_ScanClosesAtEndOfFile ==
    ScanExhausted =>
        /\ ~it.file_open
        /\ NextAfterEndReadsNothing
        /\ close(close(it)) = close(it)

\* The request is over: answered with an error, streamed to the end, ended
\* by a failing read, or left by the client.
Terminated == pc \in {"rejected", "done", "aborted", "cancelled"}
\* C20: the CSV file handle a request opened is closed on every exit path
\* (exhaustion, header mismatch in the scan's construction, mid-stream
\* error, client disconnect); no terminated request leaves it open.
C20_HandleClosedOnEveryExit == Terminated => ~it.file_open
\* A request that opened the file terminates with the handle open, on
\* every one of the four paths.
NoExitClosesHandle ==
    (Terminated /\ engine_calls = 1 /\ detail \in {"", "DataAccessError"} /\ file.exists)
        => it.file_open

\* ------------------------------------------------------------------ claims on buffering
\* The rows the pipeline holds: the scan's buffer, the rows the scan keeps
\* after handing them out, and the rows batch_generator has not sent yet.
RowsRetained == Len(it.cache) + Len(it.used) + Len(batch)
\* C21: at every point of a request the pipeline retains at most scan
\* batch-size plus NDJSON batch-size rows, however many rows were streamed.
C21_RetainedRowsBounded ==
    Started => RowsRetained <= it.batch_size + ndjson_size
\* Without the rows kept in __used the bound is met.
BufferedRowsBounded ==
    Started => Len(it.cache) + Len(batch) <= it.batch_size + ndjson_size

\* One next() on the scan returns the head of the buffer, refilled first
\* when it was empty, and removes that row from the buffer.
NextReturnsBufferHead ==
    \E b \in {IF it.cache = <<>> /\ ~it.is_done THEN load_next_batch(file.rows, it) ELSE it} :
    \E r \in {TableNext(file.rows, it)} :
        /\ r.has = (b.cache # <<>>)
        /\ r.has => (r.row = Head(b.cache) /\ r.it.cache = Tail(b.cache))
        /\ Len(b.cache) <= it.batch_size
\* The file is read only when the buffer is empty.
RefillOnlyWhenEmpty == it.cache # <<>> => TableNext(file.rows, it).it.pos = it.pos
\* One refill takes at most batch-size raw rows from the file.
RefillReadsAtMostBatchSize ==
    load_next_batch(file.rows, it).pos - it.pos <= it.batch_size
\* C22: a refill of the scan reads at most batch-size raw rows, happens
\* only when the buffer is empty and a row is asked for, leaves at most
\* batch-size rows in the buffer, and next hands the buffered rows out one
\* at a time in file order.
C22_RefillBounded ==
    pc = "streaming" =>
        /\ RefillReadsAtMostBatchSize
        /\ RefillOnlyWhenEmpty
        /\ NextReturnsBufferHead
\* All of it but the number of raw rows read.
RefillButForRawRows == pc = "streaming" => (RefillOnlyWhenEmpty /\ NextReturnsBufferHead)

\* No row has been pulled from the scan: it handed out none and has not met
\* the end of the file.
NothingPulled == it.used = <<>> /\ ~it.is_done
\* C23: execute reads no data row; the scan it builds has only opened the
\* file and read the header, and data is read when the first row is pulled.
C23_ExecuteIsLazy ==
    /\ pc \in {"idle", "authed", "rejected"} => (it.pos = 0 /\ it.cache = <<>>)
    /\ (Started /\ NothingPulled) => (it.pos = 0 /\ it.cache = <<>>)
\* execute has returned the iterator over a file with data rows, none read.
C23_Witness ==
    /\ pc = "streaming" /\ NothingPulled /\ file.rows # <<>>
    /\ it.file_open /\ it.pos = 0

\* ------------------------------------------------------------------ two requests at once
\* Two requests served by the one DatabaseEngine over the same file. In
\* this specification pc, req, plan, it, batch and lines hold one value per
\* request (functions on RequestIds); file is the data both read, and
\* ndjson_size the batch size every batch_generator is called with.
RequestIds == {1, 2}
\* An engine that kept one iterator per table: every request reads through
\* the same one.
IteratorOfShared(i) == 1
\* Scan.execute builds a new TableIterator on every call: request i reads
\* through an iterator of its own.
IteratorOf(i) == i
\* A list kept outside the generator: one batch for all requests.
BatchOfShared(i) == 1
\* batch is a local of the generator of request i.
BatchOf(i) == i

\* Files with the right header and rows that match b = 'x' or do not.
PairFiles ==
    {[exists |-> TRUE, header |-> <<"a", "b">>, rows |-> rs] :
        rs \in SeqsUpTo({<<"1", "x">>, <<"1", "1">>}, MaxRows)}
\* Accepted queries: everything, a filter, a projection.
PairRequests ==
    {[sql |-> q, db |-> "db1"] :
        q \in {Select(<<Star>>, OneTable, NoWhere), Select(<<Star>>, OneTable, BEqX),
               Select(<<Col("b"), Col("a"), Col("b")>>, OneTable, NoWhere)}}

InitPair ==
    /\ file \in PairFiles
    /\ pc = [i \in RequestIds |-> "authed"]
    /\ token = "valid"
    /\ req \in [RequestIds -> PairRequests]
    /\ status = 0
    /\ detail = ""
    /\ engine_calls = 0
    /\ plan = [i \in RequestIds |-> NoPlan]
    /\ it = [i \in RequestIds |-> NoIterator]
    /\ ndjson_size \in 1..MaxNdjsonBatch
    /\ batch = [i \in RequestIds |-> <<>>]
    /\ lines = [i \in RequestIds |-> <<>>]

\* The return of stream_query_by_sql for request i once the engine has
\* validated its query as parsed: the plan is built and the scan opened.
StartStream(i, parsed) ==
    /\ \E scan_size \in 1..MaxScanBatch :
        it' = [it EXCEPT ![IteratorOf(i)] = NewTableIterator(scan_size)]
    /\ plan' = [plan EXCEPT ![i] = execute_parsed_sql(parsed)]
    /\ pc' = [pc EXCEPT ![i] = "streaming"]
    /\ engine_calls' = engine_calls + 1
    /\ status' = StatusOf("")
    /\ UNCHANGED <<file, token, req, detail, ndjson_size, batch, lines>>

\* stream_query_by_sql of request i, whose query the engine accepts.
HandleQueryOf(i) ==
    /\ pc[i] = "authed"
    /\ execute(req[i].sql, req[i].db) = ""
    /\ \E parsed \in {validate(req[i].sql, req[i].db)} : StartStream(i, parsed)

\* What one turn of the for loop of the batch_generator of request i does
\* with the outcome r of next(iterator).
PullRowWith(i, r) ==
    /\ \E grown \in {Append(batch[BatchOf(i)], SerializeRow(r.row))} :
           /\ it' = [it EXCEPT ![IteratorOf(i)] = r.it]
           /\ IF r.raised
                THEN /\ pc' = [pc EXCEPT ![i] = "aborted"]
                     /\ UNCHANGED <<batch, lines>>
              ELSE IF r.has
                THEN /\ pc' = pc
                     /\ IF Len(grown) >= ndjson_size
                          THEN /\ lines' = [lines EXCEPT ![i] = Append(@, grown)]
                               /\ batch' = [batch EXCEPT ![BatchOf(i)] = <<>>]
                          ELSE /\ batch' = [batch EXCEPT ![BatchOf(i)] = grown]
                               /\ UNCHANGED lines
              ELSE /\ pc' = [pc EXCEPT ![i] = "done"]
                   /\ lines' = [lines EXCEPT ![i] = IF batch[BatchOf(i)] # <<>>
                                                     THEN Append(@, batch[BatchOf(i)]) ELSE @]
                   /\ batch' = [batch EXCEPT ![BatchOf(i)] = <<>>]
    /\ UNCHANGED <<file, token, req, status, detail, engine_calls, plan, ndjson_size>>

\* One turn of the for loop of the batch_generator of request i.
PullRowOf(i) ==
    /\ pc[i] = "streaming"
    /\ \E r \in {PipelineNext(file.rows, it[IteratorOf(i)], plan[i])} : PullRowWith(i, r)

NextPair == \E i \in RequestIds : HandleQueryOf(i) \/ PullRowOf(i)

SpecPair == InitPair /\ [][NextPair]_vars

\* ------------------------------------------------------------------ claims on two requests
\* C24: the same query executed twice on unchanged data gives the same
\* output stream: the same rows in the same order in the same lines.
C24_SameQuerySameStream ==
    (req[1] = req[2] /\ pc[1] = "done" /\ pc[2] = "done") => lines[1] = lines[2]
\* Both executions of a filter have ended, each with the same two lines.
C24_Witness ==
    /\ req[1] = req[2] /\ req[1].sql.where = BEqX
    /\ pc[1] = "done" /\ pc[2] = "done"
    /\ Len(lines[1]) = 2 /\ lines[2] = lines[1]

\* The lines request i sends when it is the only request: the rows its plan
\* yields over the file, cut into lines of ndjson_size rows.
AloneLines(i) ==
    Chunks(Drain(file.rows, NewTableIterator(it[i].batch_size), plan[i]), ndjson_size)
\* Request i can take its next step: its query can be handed to the engine,
\* or its generator can take the outcome of its next pull (ENABLED of
\* HandleQueryOf(i) or PullRowOf(i), with the validation and the pull
\* evaluated first).
CanStep(i) ==
    /\ pc[i] = "authed" =>
            /\ execute(req[i].sql, req[i].db) = ""
            /\ \E parsed \in {validate(req[i].sql, req[i].db)} : ENABLED StartStream(i, parsed)
    /\ pc[i] = "streaming" =>
            \E r \in {PipelineNext(file.rows, it[i], plan[i])} : ENABLED PullRowWith(i, r)
\* C25: concurrent requests share no mutable state: under every
\* interleaving of their pulls each request sends what it sends when run
\* alone, and a request can always take its next step whatever the other
\* one does.
C25_RequestsIndependent ==
    \A i \in RequestIds :
        /\ pc[i] = "streaming" => IsPrefix(lines[i], AloneLines(i))
        /\ pc[i] = "done" => lines[i] = AloneLines(i)
        /\ pc[i] # "aborted"
        /\ CanStep(i)
\* Two different queries over the same table are both under way, each
\* having sent a line and still holding a row.
C25_Witness ==
    /\ req[1] # req[2]
    /\ \A i \in RequestIds : pc[i] = "streaming" /\ lines[i] # <<>> /\ batch[i] # <<>>

\* ------------------------------------------------------------------ POST /auth/connect
\* accounts.json: the stored value of the password per username.
Accounts == [alice |-> "pw1", bob |-> "pw2"]
\* str.strip() on the form values that occur.
Strip(x) ==
    CASE x = " alice " -> "alice"
      [] x = " pw1" -> "pw1"
      [] OTHER -> x
\* The form fields username, password and db.
ConnectForms ==
    {[username |-> u, password |-> p, db |-> d] :
        u \in {"alice", " alice ", "bob", "carol", ""},
        p \in {"pw1", " pw1", "pw2", "bad", ""},
        d \in {"db1", "nodb", ""}}
\* An answer of the route: the status, the subject of the token issued
\* ("none" when no token is) and the exception behind an error.
Answer(st, sub, exc) == [status |-> st, sub |-> sub, detail |-> exc]

\* AuthManager.get_user: the account of the name, if any.
get_user(username) == username \in DOMAIN Accounts
\* AuthManager.authenticate_user: TRUE when it raises the 401.
authenticate_user_raises(username, password) ==
    ~get_user(username) \/ password # Accounts[username]
\* AuthManager.login_for_access_token: both values are stripped, then
\* checked; the subject of the token is the username of the account.
login_for_access_token(username, password) ==
    IF authenticate_user_raises(Strip(username), Strip(password))
    THEN Answer(401, "none", "HTTPException")
    ELSE Answer(200, Strip(username), "")
\* The engine object has an attribute called __dbs: it has not, the list
\* assigned as self.__dbs inside the class is stored as _DatabaseEngine__dbs
\* and the route reads database_engine.__dbs outside the class.
EngineHasDbsAttr == FALSE
\* The route function connection.
connection(username, password, db) ==
    IF ~EngineHasDbsAttr THEN Answer(500, "none", "AttributeError")
    ELSE IF db \notin Dbs THEN Answer(400, "none", "HTTPException")
    ELSE login_for_access_token(username, password)

\* In this specification req holds the form, token the subject of the token
\* issued and status and detail the answer.
InitConnect ==
    /\ req \in ConnectForms
    /\ pc = "idle"
    /\ token = "none"
    /\ file = NoFile
    /\ status = 0
    /\ detail = ""
    /\ engine_calls = 0
    /\ plan = NoPlan
    /\ it = NoIterator
    /\ ndjson_size = 0
    /\ batch = <<>>
    /\ lines = <<>>

\* POST /auth/connect is answered.
Connect ==
    /\ pc = "idle"
    /\ \E a \in {connection(req.username, req.password, req.db)} :
        /\ status' = a.status
        /\ token' = a.sub
        /\ detail' = a.detail
    /\ pc' = "answered"
    /\ UNCHANGED <<file, req, engine_calls, plan, it, ndjson_size, batch, lines>>

SpecConnect == InitConnect /\ [][Connect]_vars

\* The username is unknown or the password is not the stored value.
BadCredentials ==
    req.username \notin DOMAIN Accounts \/ req.password # Accounts[req.username]
\* C26: POST /auth/connect answers 400 when the db is unknown, 401 when the
\* user is unknown or the password is not the stored value, and issues a
\* token, whose subject is the username, only when the db is known and the
\* credentials match.
C26_ConnectAnswers ==
    pc = "answered" =>
        /\ req.db \notin Dbs => status = 400
        /\ (req.db \in Dbs /\ BadCredentials) => status = 401
        /\ token # "none" => (req.db \in Dbs /\ ~BadCredentials /\ token = req.username)
        /\ (req.db \in Dbs /\ ~BadCredentials) => (status = 200 /\ token = req.username)
\* No form is answered with anything but the 500 of the failed attribute
\* lookup.
ConnectAlwaysFails == pc = "answered" => (status = 500 /\ token = "none")

\* ------------------------------------------------------------------ the client cursor
\* Most lines a response body has.
MaxBodyLines == 3
\* A Python list, as json.loads returns it for a JSON array.
PyList(items) == [t |-> "list", items |-> items]
PyDict == [t |-> "dict"]
\* JSON texts, by the value they spell.
JArray(items) == [j |-> "array", items |-> items]
JNumber(n, real) == [j |-> "number", n |-> n, real |-> real]
JString(s) == [j |-> "string", s |-> s]
JTrue == [j |-> "true"]
JFalse == [j |-> "false"]
JNull == [j |-> "null"]
JObject == [j |-> "object"]
\* A line of the body: a JSON text, an empty line, or text that is no JSON.
JsonLine(v) == [line |-> "json", value |-> v]
EmptyLine == [line |-> "empty"]
GarbageLine == [line |-> "garbage"]

\* json.dumps on a cell: int and float as numbers, bool as true or false,
\* None as null, str as a string.
dumps_cell(v) ==
    CASE v.t = "int" -> JNumber(v.n, FALSE)
      [] v.t = "float" -> JNumber(v.n, TRUE)
      [] v.t = "bool" -> IF v.n = 1 THEN JTrue ELSE JFalse
      [] v.t = "none" -> JNull
      [] OTHER -> JString(v.s)
\* json.dumps on a row and on a batch of rows.
dumps_row(row) == JArray(SeqMap(dumps_cell, row))
dumps_batch(rows) == JArray(SeqMap(dumps_row, rows))

\* json.loads on the text of a scalar.
loads_cell(j) ==
    CASE j.j = "number" -> IF j.real THEN FloatVal(j.n) ELSE IntVal(j.n)
      [] j.j = "string" -> StrVal(j.s)
      [] j.j = "true" -> BoolVal(TRUE)
      [] j.j = "false" -> BoolVal(FALSE)
      [] OTHER -> NoneVal
\* json.loads on an element of the outer array.
loads_item(j) == IF j.j = "array" THEN PyList(SeqMap(loads_cell, j.items)) ELSE loads_cell(j)
\* json.loads on a line.
loads(j) ==
    IF j.j = "array" THEN PyList(SeqMap(loads_item, j.items))
    ELSE IF j.j = "object" THEN PyDict
    ELSE loads_cell(j)

\* tuple(row) for a list of cells.
TupleOf(row) == row.items
\* The batch branch yielding the first row of the line only.
rows_of_first_only(data) ==
    IF data.items # <<>> /\ data.items[1].t = "list"
    THEN <<TupleOf(data.items[1])>>
    ELSE <<data.items>>
\* Lines 167-171: the rows a decoded line yields, every inner list of a
\* batch (told by its first element) or the line itself as one row.
rows_of(data) ==
    IF data.items # <<>> /\ data.items[1].t = "list"
    THEN SeqMap(TupleOf, data.items)
    ELSE <<data.items>>

RECURSIVE row_generator_next(_, _)
\* The generator of _make_row_generator run to its next yield, from the
\* rows of the current line still to yield and the lines not yet read:
\* has with the row, or the end of the body, or the ProgrammingError of a
\* line that is no JSON or no array.
row_generator_next(pending, body) ==
    IF pending # <<>>
        THEN [has |-> TRUE, raised |-> FALSE, row |-> Head(pending),
              pending |-> Tail(pending), body |-> body]
    ELSE IF body = <<>>
        THEN [has |-> FALSE, raised |-> FALSE, row |-> <<>>, pending |-> <<>>, body |-> <<>>]
    ELSE IF Head(body) = EmptyLine THEN row_generator_next(<<>>, Tail(body))
    ELSE IF Head(body) = GarbageLine \/ loads(Head(body).value).t # "list"
        THEN [has |-> FALSE, raised |-> TRUE, row |-> <<>>, pending |-> <<>>,
              body |-> Tail(body)]
    ELSE row_generator_next(rows_of(loads(Head(body).value)), Tail(body))

\* Rows the server streams, after _serialize_value.
ServerRows == {<<IntVal(1), StrVal("x")>>, <<FloatVal(2), NoneVal, BoolVal(TRUE)>>}
\* What the server or another sender puts on a line: a batch of rows (the
\* output of batch_generator), one row as a flat array, nothing, text that
\* is no JSON, a JSON object.
SentLines ==
    {[kind |-> "batch", rows |-> b] : b \in SeqsUpTo(ServerRows, 2) \ {<<>>}}
    \cup {[kind |-> "row", rows |-> <<r>>] : r \in ServerRows}
    \cup {[kind |-> k, rows |-> <<>>] : k \in {"empty", "garbage", "object"}}
\* The line as it is on the wire.
WireLine(l) ==
    CASE l.kind = "batch" -> JsonLine(dumps_batch(l.rows))
      [] l.kind = "row" -> JsonLine(dumps_row(l.rows[1]))
      [] l.kind = "empty" -> EmptyLine
      [] l.kind = "garbage" -> GarbageLine
      [] OTHER -> JsonLine(JObject)
\* What requests.post comes back with: an exception of the network, or a
\* response with its status, whether its content type is application/json,
\* the kind of its body (a JSON object with or without detail, a JSON
\* array, text that is no JSON, or the lines of a stream) and, for a
\* stream, what was sent line by line.
Response(outcome, st, json_type, body, sent) ==
    [outcome |-> outcome, status |-> st, json_type |-> json_type, body |-> body, sent |-> sent]
ErrorBodies == {"detail", "object", "array", "text"}
Responses ==
    {Response("response", 200, FALSE, "stream", s) : s \in SeqsUpTo(SentLines, MaxBodyLines)}
    \cup {Response("response", st, FALSE, "stream", <<>>) : st \in {204, 300}}
    \cup {Response("response", st, jt, b, <<>>) :
            st \in {400, 401, 403, 404, 422, 500, 503}, jt \in BOOLEAN, b \in ErrorBodies}
    \cup {Response(e, 0, FALSE, "text", <<>>) : e \in {"ConnectionError", "Timeout"}}
\* resp.json().get("detail", resp.text): the exception it raises, "" when
\* it gives a value; a body that is no JSON cannot be parsed and a JSON
\* array has no get.
json_detail_raises(resp) ==
    IF resp.body = "text" THEN "JSONDecodeError"
    ELSE IF resp.body = "array" THEN "AttributeError"
    ELSE ""
\* Cursor.execute: the exception it raises, "" when it installs the row
\* generator and returns.
cursor_execute(resp) ==
    IF resp.outcome # "response" THEN "DatabaseError"
    ELSE IF 400 <= resp.status /\ resp.status < 500 THEN
        IF json_detail_raises(resp) # "" THEN json_detail_raises(resp)
        ELSE "ProgrammingError"
    ELSE IF resp.status >= 500 THEN
        IF resp.json_type /\ json_detail_raises(resp) # "" THEN json_detail_raises(resp)
        ELSE "DatabaseError"
    ELSE ""
\* The cursor as Cursor.__init__ leaves it.
NoCursor == [row_gen |-> FALSE, fetched |-> <<>>, rowcount |-> -1]

\* In this specification req holds what requests.post comes back with,
\* lines the lines of the body the generator has not read, batch the rows
\* of the current line it has not yielded, it the cursor (whether a row
\* generator is installed, the rows fetched from it, rowcount), status the status
\* the client saw and detail the exception the client raised.
InitCursor ==
    /\ req \in Responses
    /\ lines = <<>>
    /\ batch = <<>>
    /\ it = NoCursor
    /\ pc = "new"
    /\ token = "valid"
    /\ file = NoFile
    /\ status = 0
    /\ detail = ""
    /\ engine_calls = 0
    /\ plan = NoPlan
    /\ ndjson_size = 0

\* Cursor.execute on the outcome of requests.post.
CursorExecute ==
    /\ pc = "new"
    /\ \E exc \in {cursor_execute(req)} :
        /\ detail' = exc
        /\ pc' = IF exc = "" THEN "open" ELSE "failed"
        /\ it' = IF exc = "" THEN [it EXCEPT !.row_gen = TRUE, !.rowcount = -1] ELSE it
        /\ lines' = IF exc = "" THEN SeqMap(WireLine, req.sent) ELSE lines
    /\ status' = req.status
    /\ UNCHANGED <<file, token, req, engine_calls, plan, ndjson_size, batch>>

\* What resp.iter_lines raises when the body cannot be read on: the
\* connection broke (ChunkedEncodingError), the read timed out
\* (ConnectionError), the TLS layer failed (SSLError, a ConnectionError), or
\* the content encoding is damaged (ContentDecodingError, no failure of the
\* connection).
ConnectionFailures == {"ChunkedEncodingError", "ConnectionError", "SSLError"}
ReadErrors == ConnectionFailures \cup {"ContentDecodingError"}
\* The except clause of the generator naming ReadTimeout only.
read_error_caught_timeout_only(exc) == exc = "ReadTimeout"
\* Line 172: except (ChunkedEncodingError, ReadTimeout, ConnectionError),
\* which takes the subclasses of the three as well.
read_error_caught(exc) ==
    exc \in {"ChunkedEncodingError", "ReadTimeout", "ConnectionError", "SSLError"}

\* x or y on two integers: x unless x is 0.
py_or(x, y) == IF x = 0 THEN y ELSE x

\* Cursor.fetchone: the next row of the generator; None at its end; the
\* ProgrammingError of the generator passes through; line 183 sets rowcount
\* to (rowcount or 0) + 1 when a row is returned. When the lines received
\* are used up on a failed connection (token holds the exception of the
\* read), the generator returns if its except clause takes the exception,
\* else the exception leaves fetchone.
fetchone_result(c, r) ==
    [lines |-> r.body,
     batch |-> r.pending,
     it |-> IF r.has THEN [c.it EXCEPT !.fetched = Append(@, r.row),
                                       !.rowcount = py_or(@, 0) + 1]
            ELSE c.it,
     pc |-> IF r.raised THEN "failed"
            ELSE IF r.has THEN "open"
            ELSE IF token = "valid" \/ read_error_caught(token) THEN "exhausted"
            ELSE "failed",
     detail |-> IF r.raised THEN "ProgrammingError"
                ELSE IF ~r.has /\ token # "valid" /\ ~read_error_caught(token) THEN token
                ELSE c.detail]
\* fetchone called on cursor state c.
fetchone_on(c) == fetchone_result(c, row_generator_next(c.batch, c.lines))
\* The cursor and the body as they stand, and a call leaving them as c.
CursorNow == [lines |-> lines, batch |-> batch, it |-> it, pc |-> pc, detail |-> detail]
CursorBecomes(c) ==
    /\ lines' = c.lines
    /\ batch' = c.batch
    /\ it' = c.it
    /\ pc' = c.pc
    /\ detail' = c.detail
    /\ UNCHANGED <<file, token, req, status, engine_calls, plan, ndjson_size>>
\* Cursor.fetchone.
fetchone ==
    /\ pc = "open"
    /\ \E c \in {fetchone_on(CursorNow)} : CursorBecomes(c)

RECURSIVE fetchmany_loop(_, _)
\* The for loop of fetchmany: up to size calls of fetchone, left at the
\* first that returns None or raises.
fetchmany_loop(size, c) ==
    IF size = 0 \/ c.pc # "open" THEN c ELSE fetchmany_loop(size - 1, fetchone_on(c))
\* Largest size handed to fetchmany (the code's default is 100).
MaxFetch == 2
\* Cursor.fetchmany(size).
fetchmany ==
    /\ pc = "open"
    /\ \E size \in 1..MaxFetch :
        \E c \in {fetchmany_loop(size, CursorNow)} : CursorBecomes(c)
\* Cursor.itersize, the size fetchall hands to fetchmany.
itersize == 1000000
\* Cursor.fetchall.
fetchall ==
    /\ pc = "open"
    /\ \E c \in {fetchmany_loop(itersize, CursorNow)} : CursorBecomes(c)

SpecCursor == InitCursor /\ [][CursorExecute \/ fetchone]_vars
\* The cursor read with fetchone, fetchmany and fetchall.
SpecFetch == InitCursor /\ [][CursorExecute \/ fetchone \/ fetchmany \/ fetchall]_vars

\* The body stops arriving while the client reads it: of the lines the
\* generator has not read, the first k were received, the rest are lost, and
\* the read after them raises exc. From here on token holds exc and
\* ndjson_size the number of lines of the body that were received.
ConnectionFails ==
    /\ pc = "open"
    /\ token = "valid"
    /\ \E exc \in ReadErrors, k \in 0..Len(lines) :
        /\ token' = exc
        /\ lines' = SubSeq(lines, 1, k)
        /\ ndjson_size' = (Len(req.sent) - Len(lines)) + k
    /\ UNCHANGED <<file, pc, req, status, detail, engine_calls, plan, it, batch>>

SpecBrokenRead == InitCursor /\ [][CursorExecute \/ fetchone \/ ConnectionFails]_vars

\* ------------------------------------------------------------------ claims on the client
RECURSIVE RowsSent(_)
\* The rows of what was sent, line by line: every row of a batch, the one
\* row of a flat array, nothing for an empty line.
RowsSent(sent) ==
    IF sent = <<>> THEN <<>>
    ELSE (IF Head(sent).kind \in {"batch", "row"} THEN Head(sent).rows ELSE <<>>)
         \o RowsSent(Tail(sent))
\* Every line sent is a batch, a flat array or empty.
WellFormedBody == \A k \in DOMAIN req.sent : req.sent[k].kind \in {"batch", "row", "empty"}
\* C27: the row generator yields in stream order one tuple per row of
\* every line, each inner array of a batch line, the one row of a
\* flat-array line, nothing for an empty line, so that reading the
\* server's batched output gives the server's rows, none lost or doubled.
C27_GeneratorYieldsSentRows ==
    (it.row_gen /\ WellFormedBody) =>
        /\ IsPrefix(it.fetched, RowsSent(req.sent))
        /\ pc = "exhausted" => it.fetched = RowsSent(req.sent)
        /\ pc # "failed"
\* A body of two batch lines with an empty line between them was read to
\* its end, three rows in all.
C27_Witness ==
    /\ Len(req.sent) = 3 /\ req.sent[1].kind = "batch" /\ req.sent[2].kind = "empty"
    /\ req.sent[3].kind = "batch" /\ Len(req.sent[1].rows) = 2
    /\ pc = "exhausted" /\ Len(it.fetched) = 3

\* C28: Cursor.execute raises ProgrammingError for every 4xx response,
\* DatabaseError for every 5xx response and every network failure, and
\* installs a row generator only for a successful response.
C28_ExecuteErrorMapping ==
    pc # "new" =>
        /\ (400 <= status /\ status < 500) => detail = "ProgrammingError"
        /\ (status >= 500 \/ req.outcome # "response") => detail = "DatabaseError"
        /\ it.row_gen => (200 <= status /\ status < 300)
\* The answers of the server itself are mapped as stated: a 4xx or 5xx
\* whose body is a JSON object, a network failure, a 200 stream.
ServerAnswersMapped ==
    (pc # "new" /\ req.body \in {"detail", "object", "stream"} /\ req.status # 300) =>
        /\ (400 <= status /\ status < 500) => detail = "ProgrammingError"
        /\ (status >= 500 \/ req.outcome # "response") => detail = "DatabaseError"
        /\ it.row_gen => (200 <= status /\ status < 300)

\* ------------------------------------------------------------------ DBTypeObject.convert_datatype
\* Declared type names: the closed set, one name in lower case, and names
\* outside the set.
DeclaredTypes ==
    STRING_FAMILY \cup INTEGER_FAMILY \cup FLOAT_FAMILY \cup BOOLEAN_FAMILY
    \cup TEMPORAL_FAMILY \cup NULL_FAMILY \cup {"int", "JSON", "UUID"}
\* Cell texts: integers, a float, a word, booleans, a date, null, a quoted
\* word.
CellTexts == {"0", "1", "2.0", "x", "TRUE", "true", "2020-01-01", "null", "'x'"}
\* str.lower() on a type name.
TypeLower ==
    [d \in DeclaredTypes |->
        CASE d = "VARCHAR" -> "varchar" [] d = "TEXT" -> "text" [] d = "CHAR" -> "char"
          [] d = "INTEGER" -> "integer" [] d = "INT" -> "int" [] d = "BIGINT" -> "bigint"
          [] d = "SMALLINT" -> "smallint" [] d = "TINYINT" -> "tinyint"
          [] d = "FLOAT" -> "float" [] d = "DOUBLE" -> "double"
          [] d = "DECIMAL" -> "decimal" [] d = "DEC" -> "dec"
          [] d = "BOOLEAN" -> "boolean" [] d = "BOOL" -> "bool"
          [] d = "DATE" -> "date" [] d = "DATETIME" -> "datetime"
          [] d = "TIMESTAMP" -> "timestamp" [] d = "NULL" -> "null"
          [] d = "JSON" -> "json" [] d = "UUID" -> "uuid"
          [] OTHER -> d]
\* str.lower() on a cell text.
TextLower(x) == IF x = "TRUE" THEN "true" ELSE x
\* data.startswith("'") and data.endswith("'"), and data[1:-1].
IsQuoted(x) == x = "'x'"
Unquote(x) == IF x = "'x'" THEN "x" ELSE x
\* DBTypeObject.__eq__: other in self.values; a str compared with a
\* DBTypeObject by == ends in this method.
DBTypeObject_eq(values, other) == other \in values
\* The else branch of convert_datatype (lines 46-56): quotes stripped, or
\* int, or float, or the text itself.
InferValue(data) ==
    IF IsQuoted(data) THEN StrVal(Unquote(data))
    ELSE IF data \in DOMAIN IntText THEN IntVal(IntText[data])
    ELSE IF data \in DOMAIN FloatText THEN FloatVal(FloatText[data])
    ELSE StrVal(data)
\* DBTypeObject.convert_datatype: the value, or ConvFail for a ValueError.
\* Every test compares dtype.lower() with the upper-case names of a family.
DBTypeObject_convert_datatype(data, dtype) ==
    IF DBTypeObject_eq(STRING_FAMILY, TypeLower[dtype]) THEN StrVal(Unquote(data))
    ELSE IF IsQuoted(data) /\ ~DBTypeObject_eq(STRING_FAMILY, TypeLower[dtype]) THEN ConvFail
    ELSE IF DBTypeObject_eq(INTEGER_FAMILY, TypeLower[dtype])
        THEN IF data \in DOMAIN IntText THEN IntVal(IntText[data]) ELSE ConvFail
    ELSE IF DBTypeObject_eq(FLOAT_FAMILY, TypeLower[dtype])
        THEN IF data \in DOMAIN FloatText THEN FloatVal(FloatText[data]) ELSE ConvFail
    ELSE IF DBTypeObject_eq(BOOLEAN_FAMILY, TypeLower[dtype])
        THEN IF TextLower(data) \in {"true", "false"} THEN BoolVal(TextLower(data) = "true")
             ELSE ConvFail
    ELSE IF DBTypeObject_eq(TEMPORAL_FAMILY \ {"TIMESTAMP", "DATETIME"}, TypeLower[dtype])
            \/ DBTypeObject_eq({"DATETIME", "TIMESTAMP"}, TypeLower[dtype])
        THEN IF data \in DateTexts THEN DateVal(data) ELSE ConvFail
    ELSE IF DBTypeObject_eq(NULL_FAMILY, TypeLower[dtype])
        THEN IF TextLower(data) = "null" THEN NoneVal ELSE ConvFail
    ELSE InferValue(data)

\* In this specification req holds the text and the declared type, and
\* batch the outcome of the conversion.
InitConvert ==
    /\ req \in [text : CellTexts, dtype : DeclaredTypes]
    /\ pc = "given"
    /\ batch = <<>>
    /\ lines = <<>>
    /\ it = NoIterator
    /\ token = "none"
    /\ file = NoFile
    /\ status = 0
    /\ detail = ""
    /\ engine_calls = 0
    /\ plan = NoPlan
    /\ ndjson_size = 0

\* One call of DBTypeObject.convert_datatype.
Convert ==
    /\ pc = "given"
    /\ batch' = <<DBTypeObject_convert_datatype(req.text, req.dtype)>>
    /\ detail' = IF batch' = <<ConvFail>> THEN "ValueError" ELSE ""
    /\ pc' = "converted"
    /\ UNCHANGED <<file, token, req, status, engine_calls, plan, it, ndjson_size, lines>>

SpecConvert == InitConvert /\ [][Convert]_vars

\* The converter of the family of a declared type of the closed set, and
\* failure for a name outside the set.
FamilyConvert(text, dtype) ==
    IF dtype \in NULL_FAMILY
    THEN IF text \in {"null", "NULL"} THEN NoneVal ELSE ConvFail
    ELSE convert_datatype(text, dtype)
\* C29: convert(text, declared-type) applies the converter of the type's
\* family for every name of the closed set (integer parse, float parse,
\* TRUE/FALSE, YYYY-MM-DD, verbatim text, null), fails for text the family
\* rejects, and fails for a declared type outside the set.
C29_ConvertByFamily ==
    pc = "converted" => batch[1] = FamilyConvert(req.text, req.dtype)
\* No family test ever succeeds: apart from quoted text, which is refused,
\* every conversion is the inference of the else branch.
NoFamilyEverMatches ==
    pc = "converted" =>
        batch[1] = (IF IsQuoted(req.text) THEN ConvFail ELSE InferValue(req.text))

\* ------------------------------------------------------------------ claims on quoted comparisons
\* Calendar order of the dates that occur.
DateOrd == ("2020-01-01" :> 1) @@ ("2021-01-01" :> 2)
\* Rows of the request's table whose temporal cells hold the date d and whose
\* string cells hold the text s.
QuotedRow(d, s) ==
    [i \in 1..Len(SchemaTypes(ReqTable)) |->
        IF SchemaTypes(ReqTable)[i] \in TEMPORAL_FAMILY THEN DateVal(d)
        ELSE IF SchemaTypes(ReqTable)[i] \in STRING_FAMILY THEN StrVal(s)
        ELSE SampleCell(SchemaTypes(ReqTable)[i], 0)]
QuotedRows == {QuotedRow(d, s) : d \in DateTexts, s \in {"a", "x", "2021-01-01"}}
\* x op y in the natural order of the type: dates by calendar, strings by
\* lexicographic order.
NaturalOrder(op, x, y) ==
    IF x.t = "date" /\ y.t = "date" THEN IntOp(op, DateOrd[x.s], DateOrd[y.s])
    ELSE x.t = "str" /\ y.t = "str" /\ IntOp(op, StrRank[x.s], StrRank[y.s])
\* The comparison of column col with string literal lit, the column on the
\* left or on the right, was settled as the claim says.
QuotedComparisonSettled(col, lit, col_first) ==
    LET type == MetadataColumnType(ReqTable, col.name)
        v == convert_datatype(lit.name, type)
        cell(row) == row[IndexOf(SchemaColumns(ReqTable), col.name)]
    IN  IF v = ConvFail THEN TypeMismatch
        ELSE /\ Accepted
             /\ plan.predicate = IF col_first
                                    THEN LambdaCmp(req.sql.where.kind, ColRef(col.name), Const(v))
                                    ELSE LambdaCmp(req.sql.where.kind, Const(v), ColRef(col.name))
             /\ \A row \in QuotedRows :
                    CallPredicate(plan.predicate, row, SchemaColumns(ReqTable))
                        = IF (IF col_first THEN NaturalOrder(req.sql.where.kind, cell(row), v)
                              ELSE NaturalOrder(req.sql.where.kind, v, cell(row)))
                          THEN "T" ELSE "F"

C30_RefusalWitness ==
    /\ WhereIsComparison /\ TypeMismatch
    /\ req.sql.where = Binary("EQ", Col("d"), String("x"))

\* ------------------------------------------------------------------ claims on the compiled predicate
\* The rows a scan of the request's table is evaluated on.
ScanRows == SampleRows \cup QuotedRows
\* The value an operand of a comparison stands for on a row: a column is the
\* row's cell of that name, a string literal beside a column is read in the
\* column's type.
LeafValue(e, other, row) ==
    IF e.kind = "Column" THEN row[IndexOf(SchemaColumns(ReqTable), e.name)]
    ELSE IF e.kind = "Boolean" THEN BoolVal(e.value)
    ELSE IF ~e.is_string THEN FloatVal(FloatText[e.name])
    ELSE IF other.kind = "Column"
        THEN convert_datatype(e.name, MetadataColumnType(ReqTable, other.name))
    ELSE StrVal(e.name)
RECURSIVE Truth(_, _)
\* The truth value of a WHERE tree on a row under standard semantics.
Truth(e, row) ==
    IF e.kind = "Boolean" THEN e.value
    ELSE IF e.kind = "Paren" THEN Truth(e.this, row)
    ELSE IF e.kind = "And" THEN Truth(e.left, row) /\ Truth(e.right, row)
    ELSE IF e.kind = "Or" THEN Truth(e.left, row) \/ Truth(e.right, row)
    ELSE PyCmp(e.kind, LeafValue(e.left, e.right, row), LeafValue(e.right, e.left, row)) = "T"
\* What the plan's filter answers on a row: without a predicate no Filter is
\* built and every row passes.
FilterVerdict(row) ==
    IF plan.predicate = NoPredicate THEN "T"
    ELSE CallPredicate(plan.predicate, row, SchemaColumns(ReqTable))
HasWhere == Accepted /\ req.sql.where.kind # "NoWhere"

\* C31: for every accepted WHERE tree and every scan row the filter answers
\* the truth value of the tree under standard semantics, evaluated on the
\* whole scan row by column name.
C31_PredicateIsTruthOfTree ==
    HasWhere =>
        \A row \in ScanRows : FilterVerdict(row) = IF Truth(req.sql.where, row) THEN "T" ELSE "F"
\* A tree is folded by _eval_constant through an ordering of two string
\* literals.
RECURSIVE HasStringOrdering(_)
HasStringOrdering(e) ==
    \/ e.kind \in (Comparisons \ {"EQ", "NEQ"}) /\ is_string(e.left) /\ is_string(e.right)
    \/ e.kind = "Paren" /\ HasStringOrdering(e.this)
    \/ e.kind \in {"And", "Or"} /\ (HasStringOrdering(e.left) \/ HasStringOrdering(e.right))
\* A comparison of the WHERE tree reads a NULL-typed column.
RECURSIVE ReadsNullColumn(_)
ReadsNullColumn(e) ==
    \/ e.kind = "Column" /\ MetadataHasColumn(ReqTable, e.name)
         /\ MetadataColumnType(ReqTable, e.name) \in NULL_FAMILY
    \/ e.kind = "Paren" /\ ReadsNullColumn(e.this)
    \/ "left" \in DOMAIN e /\ (ReadsNullColumn(e.left) \/ ReadsNullColumn(e.right))
\* Every other accepted tree that reads no NULL-typed column is evaluated as
\* the standard semantics says.
PredicateIsTruthButForStringOrdering ==
    (/\ HasWhere
     /\ ~(eval_constant(req.sql.where) # "None" /\ HasStringOrdering(req.sql.where))
     /\ ~ReadsNullColumn(req.sql.where)) =>
        \A row \in ScanRows : FilterVerdict(row) = IF Truth(req.sql.where, row) THEN "T" ELSE "F"

\* ------------------------------------------------------------------ draining one stream
\* An authenticated request on an existing file with the right header, whose
\* rows are kept and matched, kept and filtered out, or skipped by the scan;
\* the server keeps iterating the response body for as long as the generator
\* yields (weak fairness of PullRow).
DrainFiles ==
    {[exists |-> TRUE, header |-> <<"a", "b">>, rows |-> rs] :
        rs \in SeqsUpTo({<<"1", "x">>, <<"1", "1">>, <<"1">>}, MaxRows)}
InitDrain ==
    /\ file \in DrainFiles
    /\ pc = "authed"
    /\ token = "valid"
    /\ req = NoRequest
    /\ status = 0
    /\ detail = ""
    /\ engine_calls = 0
    /\ plan = NoPlan
    /\ it = NoIterator
    /\ ndjson_size = 0
    /\ batch = <<>>
    /\ lines = <<>>
NextDrain == HandleQuery \/ PullRow
\* WF_vars(PullRow) written out: PullRow is enabled exactly when pc is
\* "streaming", and every pull changes the iterator or pc.
PullRowFair == []<>(pc # "streaming") \/ []<><<PullRow>>_vars
SpecDrain == InitDrain /\ [][NextDrain]_vars /\ PullRowFair

\* Raw rows not yet read plus rows waiting in the scan's buffer.
PullsLeft == (Len(file.rows) - it.pos) + Len(it.cache)
\* C32: on a finite file every pull ends, with a row or with the end of the
\* sequence, each pull that yields a row uses up at least one row of the file
\* or of the buffer, and the stream reaches its end, whatever the scan skips
\* and the filter turns down.
C32_StreamEndsAfterFinitelyManyPulls ==
    /\ [][pc = "streaming" =>
            \/ pc' = "done"
            \/ pc' = "streaming" /\ PullsLeft' < PullsLeft /\ PullsLeft' >= 0]_vars
    /\ (pc = "streaming" ~> pc = "done")
\* A stream ended after the scan skipped a row and the filter turned one down.
C32_Witness ==
    /\ pc = "done" /\ it.is_done /\ it.pos = Len(file.rows)
    /\ Len(it.used) < it.pos
    /\ Len(Flatten(lines)) < Len(it.used)
    /\ Len(Flatten(lines)) > 0

\* C33: a predicate the validator accepts raises on no row the scan can yield
\* for the table's schema, whatever the declared types and the operator.
C33_AcceptedPredicateNeverRaises ==
    HasWhere => \A row \in ScanRows : FilterVerdict(row) # "X"
\* No other accepted predicate raises.
NeverRaisesButForNullColumns ==
    (HasWhere /\ ~ReadsNullColumn(req.sql.where)) =>
        \A row \in ScanRows : FilterVerdict(row) # "X"

\* ------------------------------------------------------------------ claims on operand order
\* The operator that reads the same with the operands swapped.
Mirror(op) ==
    CASE op = "LT" -> "GT"
      [] op = "GT" -> "LT"
      [] op = "LTE" -> "GTE"
      [] op = "GTE" -> "LTE"
      [] OTHER -> op
\* The request's statement with the operands of its comparison swapped and
\* the operator mirrored.
MirroredSql ==
    [req.sql EXCEPT !.where = Binary(Mirror(req.sql.where.kind), req.sql.where.right,
                                     req.sql.where.left)]
\* What the filter of a plan descriptor answers on a row.
VerdictOf(predicate, row) ==
    IF predicate = NoPredicate THEN "T"
    ELSE CallPredicate(predicate, row, SchemaColumns(ReqTable))

\* C34: swapping the operands of a comparison and mirroring the operator
\* changes neither whether the validator accepts the query nor the rows the
\* predicate selects.
C34_MirroredComparisonEquivalent ==
    WhereIsComparison =>
        \E m \in {validate(MirroredSql, req.db)} :
            /\ (m.err = "") <=> Accepted
            /\ Accepted =>
                 \A row \in ScanRows :
                    (VerdictOf(m.predicate, row) = "T") <=> (FilterVerdict(row) = "T")
\* g <= 1 was accepted; it and 1 >= g select the rows where g is 0 or 1 and
\* not the row where g is 2.
C34_Witness ==
    /\ WhereIsComparison /\ Accepted
    /\ req.sql.where = Binary("LTE", Col("g"), Number("1"))
    /\ validate(MirroredSql, req.db).predicate
         = LambdaCmp("GTE", Const(IntVal(1)), ColRef("g"))
    /\ \E r0, r2 \in SampleRows :
         /\ FilterVerdict(r0) = "T" /\ VerdictOf(validate(MirroredSql, req.db).predicate, r0) = "T"
         /\ FilterVerdict(r2) = "F" /\ VerdictOf(validate(MirroredSql, req.db).predicate, r2) = "F"

\* ------------------------------------------------------------------ claims on the batch size
RECURSIVE ScanFrom(_, _)
RECURSIVE ScanOn(_, _)
\* The rows a scan yields from the outcome r of one next() until it stops.
ScanOn(rows, r) == IF r.has THEN <<r.row>> \o ScanFrom(rows, r.it) ELSE <<>>
\* Every row a scan yields from iterator state i until it stops.
ScanFrom(rows, i) == ScanOn(rows, TableNext(rows, i))
\* The whole sequence a new scan with batch size n yields.
ScanAll(rows, n) == ScanFrom(rows, NewTableIterator(n))

\* A scan alone: a TableIterator built with some batch size on a file with
\* the right header, pulled row by row to its end.
InitScan ==
    /\ file \in {f \in CsvFiles : f.exists /\ f.header = <<"a", "b">>}
    /\ it \in {NewTableIterator(n) : n \in 1..MaxScanBatch}
    /\ pc = "streaming"
    /\ token = "valid"
    /\ req = NoRequest
    /\ status = 0
    /\ detail = ""
    /\ engine_calls = 0
    /\ plan = NoPlan
    /\ ndjson_size = 0
    /\ batch = <<>>
    /\ lines = <<>>
\* next() on the scan.
ScanNext ==
    /\ pc = "streaming"
    /\ \E r \in {TableNext(file.rows, it)} :
        /\ it' = r.it
        /\ pc' = IF r.has THEN "streaming" ELSE "done"
    /\ UNCHANGED <<file, token, req, status, detail, engine_calls, plan, ndjson_size, batch,
                   lines>>
SpecScan == InitScan /\ [][ScanNext]_vars

\* C35: the rows a scan yields, and their order, are those a scan of the same
\* file yields with any other batch size.
C35_ScanIndependentOfBatchSize ==
    Started =>
        \A n \in 1..MaxScanBatch :
            /\ IsPrefix(it.used, ScanAll(file.rows, n))
            /\ pc = "done" => it.used = ScanAll(file.rows, n)
\* A scan with batch size 1 ended after yielding two rows and skipping one;
\* batch size 2 yields the same two.
C35_Witness ==
    /\ pc = "done" /\ it.batch_size = 1
    /\ Len(it.used) = 2 /\ it.pos = 3
    /\ it.used = ScanAll(file.rows, 2)

\* ------------------------------------------------------------------ claims on rejected requests
\* The request was turned down with a validation error (400).
ValidationRejected == pc = "rejected" /\ detail = "SQLValidationError" /\ status = 400

\* C36: a request rejected with a validation error has built no scan and
\* opened no CSV file: there is no handle to release.
C36_RejectedQueryOpensNoFile ==
    ValidationRejected => (it = NoIterator /\ ~it.file_open /\ it.pos = 0)
\* An invalid query on a table whose file exists with a wrong header was
\* rejected by the validator; the file, which a scan would have opened and
\* left open, was not touched.
C36_Witness ==
    /\ ValidationRejected
    /\ req.db \in Dbs
    /\ file.exists /\ check_header_raises(file.header)
    /\ ~it.file_open

\* ------------------------------------------------------------------ claims on a broken read
\* The lines of the body received before the connection failed.
Received == SubSeq(req.sent, 1, ndjson_size)
\* The connection failed while the body was read, and every line received
\* is a batch, a flat array or empty.
BrokenRead ==
    /\ token \in ConnectionFailures
    /\ \A k \in DOMAIN Received : Received[k].kind \in {"batch", "row", "empty"}

\* C37: when the connection fails while the client reads the body, the rows
\* fetched are in order the rows of the lines received before the failure,
\* and after them the sequence ends as a complete result does: fetchone
\* returns None and nothing is raised.
C37_BrokenReadEndsNormally ==
    BrokenRead =>
        /\ IsPrefix(it.fetched, RowsSent(Received))
        /\ pc = "exhausted" => it.fetched = RowsSent(Received)
        /\ pc # "failed" /\ detail = ""
\* Of three lines sent the connection broke after the first, a batch of two
\* rows: the two rows were fetched and the next fetchone found the end.
C37_Witness ==
    /\ token = "ChunkedEncodingError"
    /\ Len(req.sent) = 3 /\ ndjson_size = 1
    /\ req.sent[1].kind = "batch" /\ Len(req.sent[1].rows) = 2
    /\ req.sent[3].kind \in {"batch", "row"}
    /\ pc = "exhausted" /\ Len(it.fetched) = 2

\* ------------------------------------------------------------------ claims on rowcount
\* C38: after execute rowcount is -1 until a row is fetched, and from then on
\* the number of rows fetchone, fetchmany and fetchall have returned; a
\* fetch that finds the end of the stream leaves it as it is.
C38_RowcountCountsFetchedRows ==
    it.row_gen =>
        it.rowcount = IF it.fetched = <<>> THEN -1 ELSE Len(it.fetched)
\* What the code keeps: one less than the number of rows returned, since
\* (-1 or 0) is -1.
RowcountIsOneLess == it.row_gen => it.rowcount = Len(it.fetched) - 1

====
